---- MODULE Spec2Model ----
(***************************************************************************)
(* Task list management system: the REST backend (task routes, statistics  *)
(* routes, the UserStats model) and the backend-backed browser client      *)
(* (TaskManager, UIManager.init) of frontend/app.js.                       *)
(*                                                                         *)
(* Time is a clock of ticks, TicksPerDay ticks to a calendar day.  A       *)
(* timestamp (createdAt, updatedAt, completedAt, unlockedAt) is a clock    *)
(* reading; NullDate stands for null / undefined.  Client and server read  *)
(* the same clock.  A string that the code inspects (a title, a            *)
(* description) is a sequence of one-character strings.                    *)
(*                                                                         *)
(* A request is an element of reqs from the moment the caller sends it     *)
(* until its response is consumed.  A handler is cut at the awaits where   *)
(* the store is touched: every store access is one step, the synchronous   *)
(* code after it belongs to the same step.                                 *)
(***************************************************************************)
EXTENDS Integers, Sequences, FiniteSets, TLC

VARIABLES
    now,        \* the clock, in ticks
    dbTasks,    \* the tasks collection, in insertion order
    nextId,     \* the next task _id the store hands out
    dbStats,    \* the userstats collection (documents with userId "default")
    reqs,       \* the requests in flight, being handled or answered, oldest first
    cl,         \* per browser tab: the TaskManager's fields and the init progress
    hist,       \* per browser tab: what the last TaskManager step was (observation only)
    faults,     \* how many requests the network has dropped
    lim         \* the limits of the run, fixed by the initial state

vars == <<now, dbTasks, nextId, dbStats, reqs, cl, hist, faults, lim>>

(***************************************************************************)
(* Bounds of the model.                                                    *)
(***************************************************************************)
TicksPerDay == 2

\* Spec
MaxNow == 1
MaxInFlight == 1
MaxTasks == 2
MaxFaults == 1
MaxSaves == 2
\* SpecStats
StatsMaxNow == 1
StatsMaxInFlight == 2
MaxVersion == 1
\* SpecEngine
EngineMaxNow == 5
EngineMaxTasks == 3
EngineMaxSaves == 2
\* SpecReload
ReloadMaxNow == 1
ReloadMaxTasks == 2
ReloadMaxSaves == 2
MaxReloads == 1
\* SpecThresholds
ThresholdTasks == 10
ThresholdMaxSaves == 1
\* SpecStreak
MaxStreak == 2
StreakMaxInFlight == 2
\* SpecTasks
TasksMaxNow == 1
TasksMaxStored == 2
\* SpecTabs
TabsMaxInFlight == 2
TabsMaxTasks == 2
TabsMaxSaves == 2

\* Math.floor(Math.random() * 21) + 5 draws from 5..25; the runs draw from
\* the two ends of that range, or from one of them
\* SpecFailures: two tabs, one fetch may fail
FailuresMaxInFlight == 1
FailuresMaxTasks == 1
FailuresMaxFaults == 1
FailuresMaxSaves == 1

\* SpecOrder: one tab with two requests in flight, as time passes
OrderMaxNow == 1
OrderMaxInFlight == 2
OrderMaxTasks == 2

\* SpecOverlap: one tab with two requests in flight
OverlapMaxInFlight == 2
OverlapMaxTasks == 2
OverlapMaxSaves == 1

\* SpecFilter: one tab over a store of a few tasks
FilterMaxTasks == 2
FilterMaxSaves == 2

\* SpecEdit: one tab over a store of tasks completed on the first day
EditMaxNow == 3
EditMaxTasks == 2
EditMaxSaves == 2

\* SpecVariants: either the in-memory TaskManager or a tab on the backend
VariantsMaxTicks == 1
VariantsMaxAdded == 1
VariantsMaxSaves == 2
\* SpecRule: both TaskManagers over one history of completions
RuleMaxDay == 3
RuleMaxTasks == 3
RuleMaxSaves == 1

PointChoices == {5, 25}
TabsPointChoices == {5}
ThresholdPointChoices == {5, 24}

Limits(maxNow, inFlight, tasks, nFaults, version, reloads, points) ==
    [now |-> maxNow, inFlight |-> inFlight, tasks |-> tasks, faults |-> nFaults,
     version |-> version, reloads |-> reloads, points |-> points]

NullDate == -1

\* new Date(y, m, d) / setHours(0, 0, 0, 0): the midnight that starts t's day
DayStart(t) == (t \div TicksPerDay) * TicksPerDay

(***************************************************************************)
(* Badges and the statistics aggregate (models/UserStats.js).              *)
(***************************************************************************)
BadgeIds == <<"first-task", "streak-3", "points-50", "tasks-10">>

Badge(id, unlocked, unlockedAt) ==
    [id |-> id, unlocked |-> unlocked, unlockedAt |-> unlockedAt]

getDefaultBadges == [i \in 1..4 |-> Badge(BadgeIds[i], FALSE, NullDate)]

\* the document UserStats.create({userId: "default", badges: defaults}) inserts;
\* v is mongoose's version key __v
DefaultStats ==
    [totalPoints |-> 0, currentStreak |-> 0, longestStreak |-> 0,
     lastCompletedDate |-> NullDate, tasksCompleted |-> 0, totalTasks |-> 0,
     badges |-> getDefaultBadges, v |-> 0]

\* Array.prototype.findIndex on a badge array: 0 stands for -1 (not found)
FindBadgeIndex(badges, id) ==
    IF \E i \in 1..Len(badges) : badges[i].id = id
    THEN CHOOSE i \in 1..Len(badges) :
            /\ badges[i].id = id
            /\ \A j \in 1..(i - 1) : badges[j].id # id
    ELSE 0

(***************************************************************************)
(* Requests.                                                               *)
(***************************************************************************)
NoBadgeUpdate ==
    [badgeId |-> "", has |-> {}, unlocked |-> FALSE, unlockedAt |-> NullDate]

\* a JSON body; has names the fields that are present (not undefined)
NoBody ==
    [has |-> {}, title |-> <<>>, description |-> <<>>, status |-> "",
     totalPoints |-> 0, currentStreak |-> 0, tasksCompleted |-> 0, totalTasks |-> 0,
     lastCompletedDate |-> NullDate, badges |-> <<>>, badge |-> NoBadgeUpdate]

NoTask ==
    [id |-> 0, title |-> <<>>, description |-> <<>>, status |-> "pending",
     createdAt |-> NullDate, updatedAt |-> NullDate]

FreeSlot ==
    [phase |-> "free", client |-> 0, op |-> "", route |-> "", taskId |-> 0,
     badgeId |-> "", body |-> NoBody, status |-> 0,
     doc |-> DefaultStats, dirty |-> {}, pos |-> 0,
     rtask |-> NoTask, rtasks |-> <<>>,
     wasCompleted |-> FALSE, points |-> 0]

Slots == 1..Len(reqs)
CanSend == Len(reqs) < lim.inFlight

RemoveAt(seq, i) == SubSeq(seq, 1, i - 1) \o SubSeq(seq, i + 1, Len(seq))

Request(client, op, route, taskId, badgeId, body) ==
    [FreeSlot EXCEPT !.phase = "sent", !.client = client, !.op = op, !.route = route,
                     !.taskId = taskId, !.badgeId = badgeId, !.body = body]

\* res.status(code).json(...) : the handler is finished
Respond(r, code) == [r EXCEPT !.phase = "done", !.status = code]

(***************************************************************************)
(* routes/stats.js                                                         *)
(***************************************************************************)
StatsRoutes ==
    {"GET /stats", "POST /stats", "PATCH /stats", "PUT /stats/badges", "PATCH /stats/badge"}

\* router.patch("/"), lines 77-111: the updates applied to the loaded document
PatchBadge(badges, u) ==
    LET i == FindBadgeIndex(badges, u.badgeId) IN
    IF i = 0 THEN badges
    ELSE [badges EXCEPT
            ![i].unlocked = IF "unlocked" \in u.has THEN u.unlocked ELSE @,
            ![i].unlockedAt = IF "unlockedAt" \in u.has THEN u.unlockedAt ELSE @]

ApplyStatsPatch(doc, b) ==
    LET d1 == IF "totalPoints" \in b.has
              THEN [doc EXCEPT !.totalPoints = b.totalPoints] ELSE doc
        d2 == IF "currentStreak" \in b.has
              THEN [d1 EXCEPT !.currentStreak = b.currentStreak,
                              !.longestStreak = IF b.currentStreak > @
                                                THEN b.currentStreak ELSE @]
              ELSE d1
        d3 == IF "lastCompletedDate" \in b.has
              THEN [d2 EXCEPT !.lastCompletedDate = b.lastCompletedDate] ELSE d2
        d4 == IF "tasksCompleted" \in b.has
              THEN [d3 EXCEPT !.tasksCompleted = b.tasksCompleted] ELSE d3
        d5 == IF "totalTasks" \in b.has
              THEN [d4 EXCEPT !.totalTasks = b.totalTasks] ELSE d4
        d6 == IF "badges" \in b.has THEN [d5 EXCEPT !.badges = b.badges] ELSE d5
    IN  IF "badge" \in b.has
        THEN [d6 EXCEPT !.badges = PatchBadge(d6.badges, b.badge)]
        ELSE d6

\* the paths the handler assigned, which stats.save() writes
StatsPatchDirty(doc, b) ==
    (b.has \cap {"totalPoints", "currentStreak", "lastCompletedDate",
                 "tasksCompleted", "totalTasks", "badges"})
    \cup (IF "currentStreak" \in b.has /\ b.currentStreak > doc.longestStreak
          THEN {"longestStreak"} ELSE {})
    \cup (IF /\ "badge" \in b.has
             /\ "badges" \notin b.has
             /\ FindBadgeIndex(doc.badges, b.badge.badgeId) # 0
          THEN {"badge"} ELSE {})

StatsPatchPos(doc, b) ==
    IF "badge" \in b.has /\ "badges" \notin b.has
    THEN FindBadgeIndex(doc.badges, b.badge.badgeId) ELSE 0

\* The handler resumes with the document findOrCreateDefault returned and runs
\* to its next await (stats.save()) or to its response.
StatsContinue(r, doc) ==
    CASE r.route = "GET /stats" ->
            [Respond(r, 200) EXCEPT !.doc = doc]
      [] r.route = "PATCH /stats" ->
            [r EXCEPT !.phase = "saving",
                      !.doc = ApplyStatsPatch(doc, r.body),
                      !.dirty = StatsPatchDirty(doc, r.body),
                      !.pos = StatsPatchPos(doc, r.body)]
      [] r.route = "PUT /stats/badges" ->
            [r EXCEPT !.phase = "saving",
                      !.doc = [doc EXCEPT !.badges = r.body.badges],
                      !.dirty = {"badges"}]
      [] r.route = "PATCH /stats/badge" ->
            LET i == FindBadgeIndex(doc.badges, r.badgeId) IN
            IF i = 0
            THEN [Respond(r, 404) EXCEPT !.doc = doc]
            ELSE [r EXCEPT !.phase = "saving",
                           !.doc = [doc EXCEPT !.badges[i].unlocked = TRUE,
                                               !.badges[i].unlockedAt = now],
                           !.dirty = {"badge"},
                           !.pos = i]

\* stats.save(): the assigned paths are written over the stored document.  An
\* assigned array bumps the version key; a write to one array element requires
\* the version key the document was read with.
SaveApplies(r, stored) == "badge" \in r.dirty => stored.v = r.doc.v

\* a save that never takes an unlocked badge back (not what the code does)
MergingSavedStats(r, stored) ==
    [stored EXCEPT
        !.totalPoints = IF "totalPoints" \in r.dirty THEN r.doc.totalPoints ELSE @,
        !.tasksCompleted = IF "tasksCompleted" \in r.dirty THEN r.doc.tasksCompleted ELSE @,
        !.totalTasks = IF "totalTasks" \in r.dirty THEN r.doc.totalTasks ELSE @,
        !.badges = [i \in 1..Len(@) |->
                      IF @[i].unlocked \/ "badges" \notin r.dirty \/ i > Len(r.doc.badges)
                      THEN @[i] ELSE r.doc.badges[i]],
        !.v = IF "badges" \in r.dirty THEN @ + 1 ELSE @]

SavedStats(r, stored) ==
    [totalPoints |-> IF "totalPoints" \in r.dirty THEN r.doc.totalPoints
                     ELSE stored.totalPoints,
     currentStreak |-> IF "currentStreak" \in r.dirty THEN r.doc.currentStreak
                       ELSE stored.currentStreak,
     longestStreak |-> IF "longestStreak" \in r.dirty THEN r.doc.longestStreak
                       ELSE stored.longestStreak,
     lastCompletedDate |-> IF "lastCompletedDate" \in r.dirty THEN r.doc.lastCompletedDate
                           ELSE stored.lastCompletedDate,
     tasksCompleted |-> IF "tasksCompleted" \in r.dirty THEN r.doc.tasksCompleted
                        ELSE stored.tasksCompleted,
     totalTasks |-> IF "totalTasks" \in r.dirty THEN r.doc.totalTasks
                    ELSE stored.totalTasks,
     badges |-> IF "badges" \in r.dirty THEN r.doc.badges
                ELSE IF "badge" \in r.dirty
                     THEN [stored.badges EXCEPT ![r.pos] = r.doc.badges[r.pos]]
                     ELSE stored.badges,
     v |-> IF "badges" \in r.dirty THEN stored.v + 1 ELSE stored.v]

\* userId has a unique index: a second insert fails (E11000)
InsertAllowed(coll) == Len(coll) = 0

\* The request reaches its handler, which runs to its first store access and
\* reads: UserStats.findOne({userId: "default"}).
StatsFindOne(s) ==
    LET r == reqs[s] IN
    /\ r.phase = "sent"
    /\ r.route \in StatsRoutes
    /\ reqs' = [reqs EXCEPT ![s] =
         IF r.route = "PUT /stats/badges" /\ "badges" \notin r.body.has
         THEN Respond(r, 400)
         ELSE IF Len(dbStats) = 0
         THEN [r EXCEPT !.phase = "missing"]
         ELSE IF r.route = "POST /stats"
         THEN [Respond(r, 200) EXCEPT !.doc = dbStats[1]]
         ELSE IF Len(dbStats[1].badges) = 0
         THEN [r EXCEPT !.phase = "reinit",
                        !.doc = [dbStats[1] EXCEPT !.badges = getDefaultBadges]]
         ELSE StatsContinue(r, dbStats[1])]
    /\ UNCHANGED <<now, dbTasks, nextId, dbStats, cl, hist, faults, lim>>

\* findOne found nothing: UserStats.create({userId, badges: getDefaultBadges()})
StatsCreate(s) ==
    LET r == reqs[s] IN
    /\ r.phase = "missing"
    /\ IF InsertAllowed(dbStats)
       THEN /\ dbStats' = Append(dbStats, DefaultStats)
            /\ reqs' = [reqs EXCEPT ![s] =
                 IF r.route = "POST /stats"
                 THEN [Respond(r, 201) EXCEPT !.doc = DefaultStats]
                 ELSE StatsContinue(r, DefaultStats)]
       ELSE /\ dbStats' = dbStats
            /\ reqs' = [reqs EXCEPT ![s] = Respond(r, 500)]
    /\ UNCHANGED <<now, dbTasks, nextId, cl, hist, faults, lim>>

\* findOrCreateDefault found an empty badge array: the defaults are saved
StatsReinit(s) ==
    LET r == reqs[s] IN
    /\ r.phase = "reinit"
    /\ Len(dbStats) > 0
    /\ dbStats' = [dbStats EXCEPT ![1].badges = getDefaultBadges, ![1].v = @ + 1]
    /\ reqs' = [reqs EXCEPT ![s] =
                  StatsContinue(r, [r.doc EXCEPT !.v = dbStats[1].v + 1])]
    /\ UNCHANGED <<now, dbTasks, nextId, cl, hist, faults, lim>>

\* await stats.save(), then res.json({success: true, data: stats})
StatsSave(s) ==
    LET r == reqs[s] IN
    /\ r.phase = "saving"
    /\ Len(dbStats) > 0
    /\ IF SaveApplies(r, dbStats[1])
       THEN /\ dbStats' = [dbStats EXCEPT ![1] = SavedStats(r, dbStats[1])]
            /\ reqs' = [reqs EXCEPT ![s] = Respond(r, 200)]
       ELSE /\ dbStats' = dbStats
            /\ reqs' = [reqs EXCEPT ![s] = Respond(r, 500)]
    /\ UNCHANGED <<now, dbTasks, nextId, cl, hist, faults, lim>>

(***************************************************************************)
(* routes/tasks.js and models/Task.js                                      *)
(***************************************************************************)
TaskRoutes ==
    {"GET /tasks", "GET /tasks/id", "POST /tasks", "PUT /tasks", "PATCH /tasks",
     "DELETE /tasks"}

\* req.params.id can be cast to an ObjectId; findById and its kin throw a
\* CastError otherwise.  The ids the store hands out are positive.
IsObjectId(id) == id > 0

\* String.prototype.trim
RECURSIVE TrimLeft(_)
TrimLeft(str) ==
    IF str # <<>> /\ Head(str) = " " THEN TrimLeft(Tail(str)) ELSE str

RECURSIVE TrimRight(_)
TrimRight(str) ==
    IF str # <<>> /\ str[Len(str)] = " "
    THEN TrimRight(SubSeq(str, 1, Len(str) - 1)) ELSE str

Trim(str) == TrimRight(TrimLeft(str))

\* Task.find().sort({createdAt: -1}): insertion sort, newest first; tasks with
\* equal createdAt stay in the order the collection holds them
RECURSIVE InsertNewestFirst(_, _)
InsertNewestFirst(sorted, t) ==
    IF sorted = <<>> THEN <<t>>
    ELSE IF t.createdAt > Head(sorted).createdAt THEN <<t>> \o sorted
    ELSE <<Head(sorted)>> \o InsertNewestFirst(Tail(sorted), t)

RECURSIVE SortNewestFirst(_)
SortNewestFirst(tasks) ==
    IF tasks = <<>> THEN <<>>
    ELSE InsertNewestFirst(SortNewestFirst(SubSeq(tasks, 1, Len(tasks) - 1)),
                           tasks[Len(tasks)])

\* Task.findById: 0 stands for null
FindTaskIndex(tasks, id) ==
    IF \E i \in 1..Len(tasks) : tasks[i].id = id
    THEN CHOOSE i \in 1..Len(tasks) :
            /\ tasks[i].id = id
            /\ \A j \in 1..(i - 1) : tasks[j].id # id
    ELSE 0

StatusValues == {"pending", "completed"}

\* router.get("/")
GetTasks(r) == [Respond(r, 200) EXCEPT !.rtasks = SortNewestFirst(dbTasks)]

\* a title check without trim (not what the code does)
UntrimmedPostTaskInvalid(b) == "title" \notin b.has \/ b.title = <<>>

\* router.post("/"): the task Task.create stores (schema: status enum, timestamps)
PostTaskInvalid(b) == "title" \notin b.has \/ b.title = <<>> \/ Trim(b.title) = <<>>

PostTaskStatus(b) == IF "status" \in b.has /\ b.status # "" THEN b.status ELSE "pending"

CreatedTask(b) ==
    [id |-> nextId,
     title |-> Trim(b.title),
     description |-> IF "description" \in b.has /\ b.description # <<>>
                     THEN Trim(b.description) ELSE <<>>,
     status |-> PostTaskStatus(b),
     createdAt |-> now,
     updatedAt |-> now]

\* router.patch("/:id"): validation, then the updates findByIdAndUpdate applies
PatchTaskInvalid(b) ==
    \/ "title" \in b.has /\ Trim(b.title) = <<>>
    \/ "status" \in b.has /\ b.status \notin StatusValues

\* an update that overwrites the fields the body leaves out (not what the
\* code does)
OverwritingPatchedTask(t, b) ==
    [t EXCEPT !.title = IF "title" \in b.has THEN Trim(b.title) ELSE @,
              !.description = IF "description" \in b.has THEN Trim(b.description) ELSE <<>>,
              !.status = IF "status" \in b.has THEN b.status ELSE "pending",
              !.updatedAt = now]

PatchedTask(t, b) ==
    [t EXCEPT !.title = IF "title" \in b.has THEN Trim(b.title) ELSE @,
              !.description = IF "description" \in b.has THEN Trim(b.description) ELSE @,
              !.status = IF "status" \in b.has THEN b.status ELSE @,
              !.updatedAt = now]

\* router.put("/:id"): validation, then the document findByIdAndUpdate leaves
PutTaskInvalid(b) ==
    \/ PostTaskInvalid(b)
    \/ "status" \in b.has /\ b.status # "" /\ b.status \notin StatusValues

PutTask(t, b) ==
    [t EXCEPT !.title = Trim(b.title),
              !.description = IF "description" \in b.has /\ b.description # <<>>
                              THEN Trim(b.description) ELSE <<>>,
              !.status = PostTaskStatus(b),
              !.updatedAt = now]

\* A task route has one store access; the request is handled in one step.
TasksHandle(s) ==
    LET r == reqs[s]
        i == FindTaskIndex(dbTasks, r.taskId)
    IN
    /\ r.phase = "sent"
    /\ r.route \in TaskRoutes
    /\ CASE r.route = "GET /tasks" ->
              /\ reqs' = [reqs EXCEPT ![s] = GetTasks(r)]
              /\ UNCHANGED <<dbTasks, nextId>>
         [] r.route = "GET /tasks/id" ->
              /\ reqs' = [reqs EXCEPT ![s] =
                   IF ~IsObjectId(r.taskId) THEN Respond(r, 500)
                   ELSE IF i = 0 THEN Respond(r, 404)
                   ELSE [Respond(r, 200) EXCEPT !.rtask = dbTasks[i]]]
              /\ UNCHANGED <<dbTasks, nextId>>
         [] r.route = "PUT /tasks" ->
              IF PutTaskInvalid(r.body)
              THEN /\ reqs' = [reqs EXCEPT ![s] = Respond(r, 400)]
                   /\ UNCHANGED <<dbTasks, nextId>>
              ELSE IF ~IsObjectId(r.taskId)
              THEN /\ reqs' = [reqs EXCEPT ![s] = Respond(r, 500)]
                   /\ UNCHANGED <<dbTasks, nextId>>
              ELSE IF i = 0
              THEN /\ reqs' = [reqs EXCEPT ![s] = Respond(r, 404)]
                   /\ UNCHANGED <<dbTasks, nextId>>
              ELSE /\ dbTasks' = [dbTasks EXCEPT ![i] = PutTask(@, r.body)]
                   /\ reqs' = [reqs EXCEPT ![s] =
                                 [Respond(r, 200) EXCEPT
                                    !.rtask = PutTask(dbTasks[i], r.body)]]
                   /\ UNCHANGED nextId
         [] r.route = "POST /tasks" ->
              IF PostTaskInvalid(r.body)
              THEN /\ reqs' = [reqs EXCEPT ![s] = Respond(r, 400)]
                   /\ UNCHANGED <<dbTasks, nextId>>
              ELSE IF PostTaskStatus(r.body) \notin StatusValues
              THEN /\ reqs' = [reqs EXCEPT ![s] = Respond(r, 500)]
                   /\ UNCHANGED <<dbTasks, nextId>>
              ELSE /\ dbTasks' = Append(dbTasks, CreatedTask(r.body))
                   /\ nextId' = nextId + 1
                   /\ reqs' = [reqs EXCEPT ![s] =
                                 [Respond(r, 201) EXCEPT !.rtask = CreatedTask(r.body)]]
         [] r.route = "PATCH /tasks" ->
              IF PatchTaskInvalid(r.body)
              THEN /\ reqs' = [reqs EXCEPT ![s] = Respond(r, 400)]
                   /\ UNCHANGED <<dbTasks, nextId>>
              ELSE IF ~IsObjectId(r.taskId)
              THEN /\ reqs' = [reqs EXCEPT ![s] = Respond(r, 500)]
                   /\ UNCHANGED <<dbTasks, nextId>>
              ELSE IF i = 0
              THEN /\ reqs' = [reqs EXCEPT ![s] = Respond(r, 404)]
                   /\ UNCHANGED <<dbTasks, nextId>>
              ELSE /\ dbTasks' = [dbTasks EXCEPT ![i] = PatchedTask(@, r.body)]
                   /\ reqs' = [reqs EXCEPT ![s] =
                                 [Respond(r, 200) EXCEPT
                                    !.rtask = PatchedTask(dbTasks[i], r.body)]]
                   /\ UNCHANGED nextId
         [] r.route = "DELETE /tasks" ->
              IF ~IsObjectId(r.taskId)
              THEN /\ reqs' = [reqs EXCEPT ![s] = Respond(r, 500)]
                   /\ UNCHANGED <<dbTasks, nextId>>
              ELSE IF i = 0
              THEN /\ reqs' = [reqs EXCEPT ![s] = Respond(r, 404)]
                   /\ UNCHANGED <<dbTasks, nextId>>
              ELSE /\ dbTasks' = RemoveAt(dbTasks, i)
                   /\ reqs' = [reqs EXCEPT ![s] = Respond(r, 200)]
                   /\ UNCHANGED nextId
    /\ UNCHANGED <<now, dbStats, cl, hist, faults, lim>>

\* fetch() rejects: the request never reaches its handler
NetFail(s) ==
    /\ reqs[s].phase = "sent"
    /\ reqs[s].client # 0
    /\ faults < lim.faults
    /\ faults' = faults + 1
    /\ reqs' = [reqs EXCEPT ![s] = Respond(@, 0)]
    /\ UNCHANGED <<now, dbTasks, nextId, dbStats, cl, hist, lim>>

(***************************************************************************)
(* The clock, and callers of the HTTP API other than the browser client.   *)
(***************************************************************************)
Tick ==
    /\ now < lim.now
    /\ now' = now + 1
    /\ UNCHANGED <<dbTasks, nextId, dbStats, reqs, cl, hist, faults, lim>>

\* the runs stop replacing the badge array once the version key reaches the limit
VersionLeft == IF Len(dbStats) = 0 THEN TRUE ELSE dbStats[1].v < lim.version

\* badge arrays a caller may send: the client's own shape and shapes the
\* schema accepts as well (no entry, one entry)
RawBadgeArrays ==
    { getDefaultBadges,
      <<>>,
      <<Badge("streak-3", FALSE, NullDate)>> }

RawStatsBodies(t) ==
    { [NoBody EXCEPT !.has = {"badges"}, !.badges = bs] : bs \in RawBadgeArrays }
    \cup
    { [NoBody EXCEPT !.has = {"badge"},
                     !.badge = [badgeId |-> "first-task", has |-> {"unlocked"},
                                unlocked |-> FALSE, unlockedAt |-> NullDate]],
      [NoBody EXCEPT !.has = {"badge"},
                     !.badge = [badgeId |-> "first-task", has |-> {"unlocked", "unlockedAt"},
                                unlocked |-> TRUE, unlockedAt |-> t]],
      [NoBody EXCEPT !.has = {"currentStreak"}, !.currentStreak = 2],
      [NoBody EXCEPT !.has = {"currentStreak"}, !.currentStreak = 0] }

RawGetStats ==
    /\ CanSend
    /\ reqs' = Append(reqs, Request(0, "raw", "GET /stats", 0, "", NoBody))
    /\ UNCHANGED <<now, dbTasks, nextId, dbStats, cl, hist, faults, lim>>

RawPostStats ==
    /\ CanSend
    /\ reqs' = Append(reqs, Request(0, "raw", "POST /stats", 0, "", NoBody))
    /\ UNCHANGED <<now, dbTasks, nextId, dbStats, cl, hist, faults, lim>>

RawPatchStats ==
    /\ CanSend
    /\ VersionLeft
    /\ \E b \in RawStatsBodies(now) :
         reqs' = Append(reqs, Request(0, "raw", "PATCH /stats", 0, "", b))
    /\ UNCHANGED <<now, dbTasks, nextId, dbStats, cl, hist, faults, lim>>

RawPutBadges ==
    /\ CanSend
    /\ VersionLeft
    /\ \E b \in {NoBody} \cup
                { [NoBody EXCEPT !.has = {"badges"}, !.badges = bs] :
                    bs \in RawBadgeArrays } :
         reqs' = Append(reqs, Request(0, "raw", "PUT /stats/badges", 0, "", b))
    /\ UNCHANGED <<now, dbTasks, nextId, dbStats, cl, hist, faults, lim>>

RawPatchBadge ==
    /\ CanSend
    /\ \E id \in {"first-task", "no-such-badge"} :
         reqs' = Append(reqs, Request(0, "raw", "PATCH /stats/badge", 0, id, NoBody))
    /\ UNCHANGED <<now, dbTasks, nextId, dbStats, cl, hist, faults, lim>>

\* the response reaches a caller that keeps nothing of it (a caller other than
\* the client, or a page that has been left)
RawDeliver(s) ==
    /\ reqs[s].phase = "done"
    /\ reqs[s].client = 0
    /\ reqs' = RemoveAt(reqs, s)
    /\ UNCHANGED <<now, dbTasks, nextId, dbStats, cl, hist, faults, lim>>

(***************************************************************************)
(* frontend/app.js: the backend-backed TaskManager.                        *)
(***************************************************************************)
ZeroStats ==
    [totalPoints |-> 0, currentStreak |-> 0, longestStreak |-> 0,
     tasksCompleted |-> 0, totalTasks |-> 0]

\* constructor; phase is the progress of UIManager.init on this page and
\* reloads counts the page loads of the tab
NewTaskManager(reloads) ==
    [tasks |-> <<>>, badges |-> <<>>, stats |-> ZeroStats, filter |-> "all",
     phase |-> "start", reloads |-> reloads]

\* a client that takes every answer for a success (not what the code does)
EveryResponseOk(r) == r.status \in {0, 200, 201, 400, 404, 500}

Ok(r) == r.status \in {200, 201}

\* a mapping that dates the completion by createdAt (not what the code does)
StaleTaskFromBackend(t, points) ==
    [id |-> t.id, title |-> t.title, description |-> t.description,
     completed |-> (t.status = "completed"), createdAt |-> t.createdAt,
     completedAt |-> IF t.status = "completed" THEN t.createdAt ELSE NullDate,
     points |-> points]

\* a mapping that shows every task as not completed (not what the code does)
PendingTaskFromBackend(t, points) ==
    [id |-> t.id, title |-> t.title, description |-> t.description,
     completed |-> FALSE, createdAt |-> t.createdAt, completedAt |-> NullDate,
     points |-> points]

mapTaskFromBackend(t, points) ==
    [id |-> t.id,
     title |-> t.title,
     description |-> t.description,
     completed |-> (t.status = "completed"),
     createdAt |-> t.createdAt,
     completedAt |-> IF t.status = "completed" /\ t.updatedAt # NullDate
                     THEN t.updatedAt ELSE NullDate,
     points |-> points]

\* ---- checkBadgeUnlocks, the synchronous part (lines 1283-1369) ----
\* no filter on completed (not what the code does)
UnfilteredTasks(tasks) == tasks

CompletedTasks(tasks) == SelectSeq(tasks, LAMBDA t : t.completed)

RECURSIVE SumPoints(_)
SumPoints(tasks) ==
    IF tasks = <<>> THEN 0 ELSE Head(tasks).points + SumPoints(Tail(tasks))

\* .filter(t => t.completedAt).map(midnight of the day).sort(descending)
RECURSIVE InsertDescending(_, _)
InsertDescending(sorted, d) ==
    IF sorted = <<>> THEN <<d>>
    ELSE IF d > Head(sorted) THEN <<d>> \o sorted
    ELSE <<Head(sorted)>> \o InsertDescending(Tail(sorted), d)

RECURSIVE CompletionDates(_)
CompletionDates(completed) ==
    IF completed = <<>> THEN <<>>
    ELSE IF Head(completed).completedAt = NullDate
    THEN CompletionDates(Tail(completed))
    ELSE InsertDescending(CompletionDates(Tail(completed)),
                          DayStart(Head(completed).completedAt))

\* the forEach that drops a date already pushed
RECURSIVE UniqueDates(_, _)
UniqueDates(dates, acc) ==
    IF dates = <<>> THEN acc
    ELSE IF \E k \in 1..Len(acc) : acc[k] = Head(dates)
    THEN UniqueDates(Tail(dates), acc)
    ELSE UniqueDates(Tail(dates), Append(acc, Head(dates)))

\* the for loop: i runs over the indices of uniqueDates and stops at the first
\* day, counted back from today, that is not among them
\* a streak that counts the days with a completion, gaps or not (not what the
\* code does)
GaplessStreakLoop(uniqueDates, today, i) == Len(uniqueDates)

RECURSIVE StreakLoop(_, _, _)
StreakLoop(uniqueDates, today, i) ==
    IF i >= Len(uniqueDates) THEN 0
    ELSE IF \E k \in 1..Len(uniqueDates) : uniqueDates[k] = today - i * TicksPerDay
    THEN 1 + StreakLoop(uniqueDates, today, i + 1)
    ELSE 0

CurrentStreak(tasks, t) ==
    StreakLoop(UniqueDates(CompletionDates(CompletedTasks(tasks)), <<>>), DayStart(t), 0)

\* statistics that add to what is there (not what the code does)
AccumulatingStats(stats, tasks, t) ==
    [totalPoints |-> stats.totalPoints + SumPoints(CompletedTasks(tasks)),
     currentStreak |-> CurrentStreak(tasks, t),
     longestStreak |-> stats.longestStreak + CurrentStreak(tasks, t),
     tasksCompleted |-> Len(CompletedTasks(tasks)),
     totalTasks |-> Len(tasks)]

\* lines 1290-1293 and 1330-1333
UpdateStats(stats, tasks, t) ==
    LET streak == CurrentStreak(tasks, t) IN
    [totalPoints |-> SumPoints(CompletedTasks(tasks)),
     currentStreak |-> streak,
     longestStreak |-> IF streak > stats.longestStreak THEN streak
                       ELSE stats.longestStreak,
     tasksCompleted |-> Len(CompletedTasks(tasks)),
     totalTasks |-> Len(tasks)]

\* a badge rule that follows its predicate both ways (not what the code does)
FollowingUnlockIf(badges, id, cond, t) ==
    LET i == FindBadgeIndex(badges, id) IN
    IF i = 0 THEN badges
    ELSE [badges EXCEPT ![i].unlocked = cond,
                        ![i].unlockedAt = IF cond THEN t ELSE NullDate]

\* one badge rule: badges.find(id), and if it is there, locked, and cond holds,
\* it is unlocked now
UnlockIf(badges, id, cond, t) ==
    LET i == FindBadgeIndex(badges, id) IN
    IF i # 0 /\ ~badges[i].unlocked /\ cond
    THEN [badges EXCEPT ![i].unlocked = TRUE, ![i].unlockedAt = t]
    ELSE badges

\* rules with thresholds one lower for streak-3, points-50 and tasks-10 (not
\* what the code does)
EarlyUnlockBadges(badges, stats, t) ==
    LET b1 == UnlockIf(badges, "first-task", stats.tasksCompleted = 1, t)
        b2 == UnlockIf(b1, "streak-3", stats.currentStreak >= 2, t)
        b3 == UnlockIf(b2, "points-50", stats.totalPoints >= 49, t)
    IN  UnlockIf(b3, "tasks-10", stats.tasksCompleted >= 9, t)

\* lines 1337-1369: the four rules in the order of the code
UnlockBadges(badges, stats, t) ==
    LET b1 == UnlockIf(badges, "first-task", stats.tasksCompleted = 1, t)
        b2 == UnlockIf(b1, "streak-3", stats.currentStreak >= 3, t)
        b3 == UnlockIf(b2, "points-50", stats.totalPoints >= 50, t)
    IN  UnlockIf(b3, "tasks-10", stats.tasksCompleted >= 10, t)

\* the TaskManager after the synchronous part of checkBadgeUnlocks at time t
Checked(m, t) ==
    LET st == UpdateStats(m.stats, m.tasks, t) IN
    [m EXCEPT !.stats = st, !.badges = UnlockBadges(m.badges, st, t)]

\* a check that saves whatever it found (not what the code does)
AlwaysSavesStats(m, m2) == TRUE

\* badgesUpdated || completedCount > 0
SavesStats(m, m2) == m2.badges # m.badges \/ m2.stats.tasksCompleted > 0

\* saveStats: the body of the PATCH /stats it sends
SaveStatsBody(m) ==
    [NoBody EXCEPT
        !.has = {"badges", "totalPoints", "currentStreak", "tasksCompleted", "totalTasks"},
        !.badges = m.badges,
        !.totalPoints = m.stats.totalPoints,
        !.currentStreak = m.stats.currentStreak,
        !.tasksCompleted = m.stats.tasksCompleted,
        !.totalTasks = m.stats.totalTasks]

SaveStatsRequest(c, m) ==
    Request(c, "saveStats", "PATCH /stats", 0, "", SaveStatsBody(m))

\* ---- observation: what the last step of a tab's TaskManager was ----
NoSnap == [taken |-> FALSE, stats |-> ZeroStats, unlocked |-> {}, tasks |-> <<>>,
           at |-> NullDate, fresh |-> FALSE, quiet |-> FALSE]

\* lastOp: the last step; newly: the badges the last checkBadgeUnlocks unlocked;
\* checkAt: when it ran; again: it ran right after another checkBadgeUnlocks;
\* snap: what the page held when it was left
NoHist == [lastOp |-> "new", newly |-> {}, checkAt |-> NullDate, again |-> FALSE,
           snap |-> NoSnap]

Unlocked(badges) == {badges[i].id : i \in {j \in 1..Len(badges) : badges[j].unlocked}}

Did(h, op) == [h EXCEPT !.lastOp = op, !.newly = {}, !.again = FALSE]

DidCheck(h, m, m2) ==
    [h EXCEPT !.lastOp = "check",
              !.newly = Unlocked(m2.badges) \ Unlocked(m.badges),
              !.checkAt = now,
              !.again = (h.lastOp = "check")]

Tabs == DOMAIN cl
Answered(c, s, op) ==
    /\ reqs[s].phase = "done"
    /\ reqs[s].client = c
    /\ reqs[s].op = op

\* ---- UIManager.init (lines 1529-1539) ----
InitLoadStats(c) ==
    /\ cl[c].phase = "start"
    /\ CanSend
    /\ reqs' = Append(reqs, Request(c, "loadStats", "GET /stats", 0, "", NoBody))
    /\ cl' = [cl EXCEPT ![c].phase = "loadStats"]
    /\ UNCHANGED <<now, dbTasks, nextId, dbStats, hist, faults, lim>>

\* loadStats resumes (lines 1002-1056), then init calls loadTasks
LoadStatsResp(c, s) ==
    LET r == reqs[s] IN
    /\ Answered(c, s, "loadStats")
    /\ cl' = [cl EXCEPT
         ![c].badges = IF Ok(r) THEN r.doc.badges ELSE getDefaultBadges,
         ![c].stats = IF Ok(r)
                      THEN [totalPoints |-> r.doc.totalPoints,
                            currentStreak |-> r.doc.currentStreak,
                            longestStreak |-> r.doc.longestStreak,
                            tasksCompleted |-> r.doc.tasksCompleted,
                            totalTasks |-> r.doc.totalTasks]
                      ELSE @,
         ![c].phase = "loadTasks"]
    /\ reqs' = [reqs EXCEPT ![s] = Request(c, "loadTasks", "GET /tasks", 0, "", NoBody)]
    /\ hist' = [hist EXCEPT ![c] = Did(@, "loadStats")]
    /\ UNCHANGED <<now, dbTasks, nextId, dbStats, faults, lim>>

\* loadTasks resumes (lines 979-993): every task is mapped with points drawn
\* anew; then init calls checkBadgeUnlocks
LoadTasksResp(c, s) ==
    LET r == reqs[s] IN
    /\ Answered(c, s, "loadTasks")
    /\ \E pts \in [1..(IF Ok(r) THEN Len(r.rtasks) ELSE 0) -> lim.points] :
         LET m  == [cl[c] EXCEPT
                      !.tasks = [i \in DOMAIN pts |-> mapTaskFromBackend(r.rtasks[i], pts[i])],
                      !.phase = "ready"]
             m2 == Checked(m, now)
         IN  /\ cl' = [cl EXCEPT ![c] = m2]
             /\ reqs' = IF SavesStats(m, m2)
                        THEN [reqs EXCEPT ![s] = SaveStatsRequest(c, m2)]
                        ELSE RemoveAt(reqs, s)
             /\ hist' = [hist EXCEPT ![c] = DidCheck(@, m, m2)]
    /\ UNCHANGED <<now, dbTasks, nextId, dbStats, faults, lim>>

\* a saveStats whose failure is passed on and takes the unlocks back (not what
\* the code does)
AlertingSaveStatsResp(c, s) ==
    /\ Answered(c, s, "saveStats")
    /\ reqs' = RemoveAt(reqs, s)
    /\ cl' = IF Ok(reqs[s]) THEN cl
             ELSE [cl EXCEPT ![c].badges =
                     [i \in 1..Len(@) |->
                        IF @[i].id \in hist[c].newly
                        THEN [@[i] EXCEPT !.unlocked = FALSE, !.unlockedAt = NullDate]
                        ELSE @[i]]]
    /\ hist' = IF Ok(reqs[s]) THEN hist ELSE [hist EXCEPT ![c] = Did(@, "alert")]
    /\ UNCHANGED <<now, dbTasks, nextId, dbStats, faults, lim>>

\* saveStats resumes: checkBadgeUnlocks swallows a failure, nothing is kept
SaveStatsResp(c, s) ==
    /\ Answered(c, s, "saveStats")
    /\ reqs' = RemoveAt(reqs, s)
    /\ UNCHANGED <<now, dbTasks, nextId, dbStats, cl, hist, faults, lim>>

\* a call of checkBadgeUnlocks on its own
CallCheckBadgeUnlocks(c) ==
    LET m  == cl[c]
        m2 == Checked(m, now)
    IN  /\ m.phase = "ready"
        /\ CanSend
        /\ VersionLeft
        /\ cl' = [cl EXCEPT ![c] = m2]
        /\ reqs' = IF SavesStats(m, m2)
                   THEN Append(reqs, SaveStatsRequest(c, m2))
                   ELSE reqs
        /\ hist' = [hist EXCEPT ![c] = DidCheck(@, m, m2)]
        /\ UNCHANGED <<now, dbTasks, nextId, dbStats, faults, lim>>

\* ---- the user's operations; the UI offers them once the page has loaded ----
Titles == {<<"a">>, <<"b">>}

TaskBody(has, title, status) ==
    [NoBody EXCEPT !.has = has, !.title = title, !.status = status]

\* tasks in the store and on their way to it
TasksUnderway ==
    Len(dbTasks) + Cardinality({s \in Slots : reqs[s].phase = "sent"
                                              /\ reqs[s].route = "POST /tasks"})

\* addTask (lines 1117-1129): POST /tasks
AddTask(c) ==
    /\ cl[c].phase = "ready"
    /\ CanSend
    /\ nextId <= lim.tasks
    /\ TasksUnderway < lim.tasks
    /\ \E points \in lim.points :
         reqs' = Append(reqs,
                    [Request(c, "addTask", "POST /tasks", 0, "",
                             TaskBody({"title", "description", "status"}, <<"a">>, "pending"))
                       EXCEPT !.points = points])
    /\ UNCHANGED <<now, dbTasks, nextId, dbStats, cl, hist, faults, lim>>

\* addTask resumes (lines 1131-1150)
AddTaskResp(c, s) ==
    LET r == reqs[s] IN
    /\ Answered(c, s, "addTask")
    /\ cl' = [cl EXCEPT ![c].tasks =
                IF Ok(r) THEN <<mapTaskFromBackend(r.rtask, r.points)>> \o @ ELSE @]
    /\ reqs' = RemoveAt(reqs, s)
    /\ hist' = [hist EXCEPT ![c] = Did(@, IF Ok(r) THEN "addTask" ELSE "alert")]
    /\ UNCHANGED <<now, dbTasks, nextId, dbStats, faults, lim>>

\* editTask (lines 1159-1167): PATCH /tasks/:id {title}
EditTask(c) ==
    /\ cl[c].phase = "ready"
    /\ CanSend
    /\ \E i \in 1..Len(cl[c].tasks) : \E title \in Titles :
         /\ title # cl[c].tasks[i].title
         /\ reqs' = Append(reqs,
                       Request(c, "editTask", "PATCH /tasks", cl[c].tasks[i].id, "",
                               TaskBody({"title"}, title, "")))
    /\ UNCHANGED <<now, dbTasks, nextId, dbStats, cl, hist, faults, lim>>

\* editTask resumes (lines 1169-1195): the task keeps the points it has
EditTaskResp(c, s) ==
    LET r == reqs[s]
        i == FindTaskIndex(cl[c].tasks, r.taskId)
    IN
    /\ Answered(c, s, "editTask")
    /\ cl' = [cl EXCEPT ![c].tasks =
                IF Ok(r) /\ i # 0
                THEN [k \in 1..Len(@) |->
                        IF @[k].id = r.taskId
                        THEN mapTaskFromBackend(r.rtask, @[i].points) ELSE @[k]]
                ELSE @]
    /\ reqs' = RemoveAt(reqs, s)
    /\ hist' = [hist EXCEPT ![c] = Did(@, IF Ok(r) THEN "editTask" ELSE "alert")]
    /\ UNCHANGED <<now, dbTasks, nextId, dbStats, faults, lim>>

\* deleteTask (lines 1203-1207): DELETE /tasks/:id
DeleteTask(c) ==
    /\ cl[c].phase = "ready"
    /\ CanSend
    /\ \E i \in 1..Len(cl[c].tasks) :
         reqs' = Append(reqs,
                    Request(c, "deleteTask", "DELETE /tasks", cl[c].tasks[i].id, "", NoBody))
    /\ UNCHANGED <<now, dbTasks, nextId, dbStats, cl, hist, faults, lim>>

\* deleteTask resumes (lines 1209-1225)
DeleteTaskResp(c, s) ==
    LET r == reqs[s] IN
    /\ Answered(c, s, "deleteTask")
    /\ cl' = [cl EXCEPT ![c].tasks =
                IF Ok(r) THEN SelectSeq(@, LAMBDA t : t.id # r.taskId) ELSE @]
    /\ reqs' = RemoveAt(reqs, s)
    /\ hist' = [hist EXCEPT ![c] = Did(@, IF Ok(r) THEN "deleteTask" ELSE "alert")]
    /\ UNCHANGED <<now, dbTasks, nextId, dbStats, faults, lim>>

\* toggleTask (lines 1233-1250): the target status and the points come from the
\* task object found at call time
ToggleTask(c) ==
    /\ cl[c].phase = "ready"
    /\ CanSend
    /\ VersionLeft
    /\ \E i \in 1..Len(cl[c].tasks) :
         LET task == cl[c].tasks[i] IN
         reqs' = Append(reqs,
                    [Request(c, "toggleTask", "PATCH /tasks", task.id, "",
                             TaskBody({"status"}, <<>>,
                                      IF task.completed THEN "pending" ELSE "completed"))
                       EXCEPT !.wasCompleted = task.completed, !.points = task.points])
    /\ UNCHANGED <<now, dbTasks, nextId, dbStats, cl, hist, faults, lim>>

\* toggleTask resumes (lines 1252-1279): the task is replaced and, when the
\* task was not completed at call time, checkBadgeUnlocks runs
ToggleTaskResp(c, s) ==
    LET r  == reqs[s]
        m  == [cl[c] EXCEPT !.tasks =
                 [k \in 1..Len(@) |->
                    IF @[k].id = r.taskId
                    THEN mapTaskFromBackend(r.rtask, r.points) ELSE @[k]]]
        m2 == Checked(m, now)
    IN
    /\ Answered(c, s, "toggleTask")
    /\ IF ~Ok(r)
       THEN /\ cl' = cl
            /\ reqs' = RemoveAt(reqs, s)
            /\ hist' = [hist EXCEPT ![c] = Did(@, "alert")]
       ELSE IF r.wasCompleted
       THEN /\ cl' = [cl EXCEPT ![c] = m]
            /\ reqs' = RemoveAt(reqs, s)
            /\ hist' = [hist EXCEPT ![c] = Did(@, "toggleTask")]
       ELSE /\ cl' = [cl EXCEPT ![c] = m2]
            /\ reqs' = IF SavesStats(m, m2)
                       THEN [reqs EXCEPT ![s] = SaveStatsRequest(c, m2)]
                       ELSE RemoveAt(reqs, s)
            /\ hist' = [hist EXCEPT ![c] = DidCheck(@, m, m2)]
    /\ UNCHANGED <<now, dbTasks, nextId, dbStats, faults, lim>>

\* ---- filtering (lines 1381-1402, 1423-1429) ----
Filters == {"all", "active", "completed"}

\* the filter buttons call setFilter with their data-filter (line 1624)
SetFilter(c) ==
    /\ cl[c].phase = "ready"
    /\ \E f \in Filters :
         /\ f # cl[c].filter
         /\ cl' = [cl EXCEPT ![c].filter = f]
    /\ UNCHANGED <<now, dbTasks, nextId, dbStats, reqs, hist, faults, lim>>

\* a filter under which "all" hides the completed tasks (not what the code does)
HidingFilteredTasks(m) == SelectSeq(m.tasks, LAMBDA t : ~t.completed)

getFilteredTasks(m) ==
    IF m.filter = "active" THEN SelectSeq(m.tasks, LAMBDA t : ~t.completed)
    ELSE IF m.filter = "completed" THEN SelectSeq(m.tasks, LAMBDA t : t.completed)
    ELSE m.tasks

getCounts(m) ==
    [all |-> Len(m.tasks),
     active |-> Len(SelectSeq(m.tasks, LAMBDA t : ~t.completed)),
     completed |-> Len(SelectSeq(m.tasks, LAMBDA t : t.completed))]

\* The page is loaded again: a new TaskManager and UIManager; what the old
\* page had in flight is answered to nobody.
Reload(c) ==
    /\ cl[c].phase = "ready"
    /\ cl[c].reloads < lim.reloads
    /\ cl' = [cl EXCEPT ![c] = NewTaskManager(cl[c].reloads + 1)]
    /\ reqs' = [s \in Slots |->
                  IF reqs[s].client = c THEN [reqs[s] EXCEPT !.client = 0] ELSE reqs[s]]
    /\ hist' = [hist EXCEPT ![c] =
         [Did(@, "reload") EXCEPT
            !.snap = [taken |-> TRUE,
                      stats |-> cl[c].stats,
                      unlocked |-> Unlocked(cl[c].badges),
                      tasks |-> dbTasks,
                      at |-> now,
                      fresh |-> (cl[c].stats = UpdateStats(cl[c].stats, cl[c].tasks, now)),
                      quiet |-> (reqs = <<>>)]]]
    /\ UNCHANGED <<now, dbTasks, nextId, dbStats, faults, lim>>

\* UIManager.init on a tab
PageLoad(c) ==
    \/ InitLoadStats(c)
    \/ \E s \in Slots : LoadStatsResp(c, s)
    \/ \E s \in Slots : LoadTasksResp(c, s)
    \/ \E s \in Slots : SaveStatsResp(c, s)

(***************************************************************************)
(* The in-memory TaskManager (frontend/app.js, lines 8-300): the same      *)
(* operations without a backend.  Days are counted from 2024-01-14.        *)
(***************************************************************************)
LocalTask(id, completed, createdDay, completedAt, points) ==
    [id |-> id, title |-> <<"a">>, description |-> <<>>, completed |-> completed,
     createdAt |-> createdDay * TicksPerDay, completedAt |-> completedAt,
     points |-> points]

\* constructor, lines 12-43 and 47-78
SampleTasks ==
    << LocalTask(1, TRUE, 1, 2 * TicksPerDay, 10),
       LocalTask(2, TRUE, 0, 0, 5),
       LocalTask(3, FALSE, 3, NullDate, 15),
       LocalTask(4, FALSE, 4, NullDate, 20) >>

SampleBadges ==
    << Badge("first-task", TRUE, 0),
       Badge("streak-3", TRUE, 2 * TicksPerDay),
       Badge("points-50", FALSE, NullDate),
       Badge("tasks-10", FALSE, NullDate) >>

\* the page is opened on a day after the dates of the examples
LocalStart == 5 * TicksPerDay

LocalTaskManager(tasks, badges) ==
    [tasks |-> tasks, badges |-> badges, stats |-> ZeroStats, filter |-> "all",
     phase |-> "local", reloads |-> 0]

\* lines 206-213: .filter(t => t.completedAt).map(midnight).sort(ascending)
RECURSIVE InsertAscending(_, _)
InsertAscending(sorted, d) ==
    IF sorted = <<>> THEN <<d>>
    ELSE IF d < Head(sorted) THEN <<d>> \o sorted
    ELSE <<Head(sorted)>> \o InsertAscending(Tail(sorted), d)

RECURSIVE LocalCompletionDates(_)
LocalCompletionDates(completed) ==
    IF completed = <<>> THEN <<>>
    ELSE IF Head(completed).completedAt = NullDate
    THEN LocalCompletionDates(Tail(completed))
    ELSE InsertAscending(LocalCompletionDates(Tail(completed)),
                         DayStart(Head(completed).completedAt))

\* lines 225-240: some window of three unique dates is three days in a row
ThreeConsecutive(uniqueDates) ==
    \E i \in 1..(Len(uniqueDates) - 2) :
       /\ (uniqueDates[i + 1] - uniqueDates[i]) \div TicksPerDay = 1
       /\ (uniqueDates[i + 2] - uniqueDates[i + 1]) \div TicksPerDay = 1

\* checkBadgeUnlocks, lines 185-255
LocalUnlockBadges(badges, tasks, t) ==
    LET done == CompletedTasks(tasks)
        b1 == UnlockIf(badges, "first-task", Len(done) = 1, t)
        b2 == UnlockIf(b1, "streak-3",
                       ThreeConsecutive(UniqueDates(LocalCompletionDates(done), <<>>)), t)
        b3 == UnlockIf(b2, "points-50", SumPoints(done) >= 50, t)
    IN  UnlockIf(b3, "tasks-10", Len(done) >= 10, t)

LocalChecked(m, t) == [m EXCEPT !.badges = LocalUnlockBadges(m.badges, m.tasks, t)]

\* a toggle that keeps the completion date of a task it un-completes (not
\* what the code does)
KeepingToggled(task, t) ==
    [task EXCEPT !.completed = ~@,
                 !.completedAt = IF ~task.completed THEN t ELSE @]

\* lines 164-174: the toggled copy of the task
LocalToggled(task, t) ==
    [task EXCEPT !.completed = ~@,
                 !.completedAt = IF ~task.completed THEN t ELSE NullDate]

\* toggleTask, lines 158-183
LocalToggleTask(c) ==
    /\ cl[c].phase = "local"
    /\ \E i \in 1..Len(cl[c].tasks) :
         LET task == cl[c].tasks[i]
             m    == [cl[c] EXCEPT !.tasks =
                        [k \in 1..Len(@) |->
                           IF @[k].id = task.id THEN LocalToggled(@[k], now) ELSE @[k]]]
             m2   == LocalChecked(m, now)
         IN  IF task.completed
             THEN /\ cl' = [cl EXCEPT ![c] = m]
                  /\ hist' = [hist EXCEPT ![c] = Did(@, "toggleTask")]
             ELSE /\ cl' = [cl EXCEPT ![c] = m2]
                  /\ hist' = [hist EXCEPT ![c] = DidCheck(@, m, m2)]
    /\ UNCHANGED <<now, dbTasks, nextId, dbStats, reqs, faults, lim>>

\* addTask, lines 111-123; generateId is a value no task has had
LocalAddTask(c) ==
    /\ cl[c].phase = "local"
    /\ nextId <= lim.tasks
    /\ \E points \in lim.points :
         cl' = [cl EXCEPT ![c].tasks =
                  <<[id |-> nextId, title |-> <<"a">>, description |-> <<>>,
                     completed |-> FALSE, createdAt |-> now, completedAt |-> NullDate,
                     points |-> points]>> \o @]
    /\ nextId' = nextId + 1
    /\ hist' = [hist EXCEPT ![c] = Did(@, "addTask")]
    /\ UNCHANGED <<now, dbTasks, dbStats, reqs, faults, lim>>

\* deleteTask, lines 146-150
LocalDeleteTask(c) ==
    /\ cl[c].phase = "local"
    /\ \E i \in 1..Len(cl[c].tasks) :
         cl' = [cl EXCEPT ![c].tasks =
                  SelectSeq(@, LAMBDA t : t.id # cl[c].tasks[i].id)]
    /\ hist' = [hist EXCEPT ![c] = Did(@, "deleteTask")]
    /\ UNCHANGED <<now, dbTasks, nextId, dbStats, reqs, faults, lim>>

\* a call of checkBadgeUnlocks on its own (UIManager.init, line 393)
LocalCallCheckBadgeUnlocks(c) ==
    LET m  == cl[c]
        m2 == LocalChecked(m, now)
    IN  /\ m.phase = "local"
        /\ cl' = [cl EXCEPT ![c] = m2]
        /\ hist' = [hist EXCEPT ![c] = DidCheck(@, m, m2)]
        /\ UNCHANGED <<now, dbTasks, nextId, dbStats, reqs, faults, lim>>

Idle == [c \in {} |-> 0]
Fresh(tabs) == [c \in tabs |-> NewTaskManager(0)]
Unobserved(tabs) == [c \in tabs |-> NoHist]

(***************************************************************************)
(* Spec: one browser tab and the backend, from an empty store; requests    *)
(* may be lost.                                                            *)
(***************************************************************************)
Init ==
    /\ now = 0
    /\ dbTasks = <<>>
    /\ nextId = 1
    /\ dbStats = <<>>
    /\ reqs = <<>>
    /\ cl = Fresh({1})
    /\ hist = Unobserved({1})
    /\ faults = 0
    /\ lim = Limits(MaxNow, MaxInFlight, MaxTasks, MaxFaults, MaxSaves, 0, PointChoices)

Next ==
    \/ Tick
    \/ \E c \in Tabs : PageLoad(c)
    \/ \E c \in Tabs : AddTask(c)
    \/ \E c \in Tabs : \E s \in Slots : AddTaskResp(c, s)
    \/ \E c \in Tabs : EditTask(c)
    \/ \E c \in Tabs : \E s \in Slots : EditTaskResp(c, s)
    \/ \E c \in Tabs : DeleteTask(c)
    \/ \E c \in Tabs : \E s \in Slots : DeleteTaskResp(c, s)
    \/ \E c \in Tabs : ToggleTask(c)
    \/ \E c \in Tabs : \E s \in Slots : ToggleTaskResp(c, s)
    \/ \E c \in Tabs : CallCheckBadgeUnlocks(c)
    \/ \E s \in Slots : StatsFindOne(s)
    \/ \E s \in Slots : StatsCreate(s)
    \/ \E s \in Slots : StatsSave(s)
    \/ \E s \in Slots : TasksHandle(s)
    \/ \E s \in Slots : NetFail(s)

Spec == Init /\ [][Next]_vars

(***************************************************************************)
(* SpecStats: the statistics routes under arbitrary callers.               *)
(***************************************************************************)
InitStats ==
    /\ now = 0
    /\ dbTasks = <<>>
    /\ nextId = 1
    /\ dbStats = <<>>
    /\ reqs = <<>>
    /\ cl = Idle
    /\ hist = Idle
    /\ faults = 0
    /\ lim = Limits(StatsMaxNow, StatsMaxInFlight, 0, 0, MaxVersion, 0, PointChoices)

NextStats ==
    \/ Tick
    \/ RawGetStats
    \/ RawPostStats
    \/ RawPatchStats
    \/ RawPutBadges
    \/ RawPatchBadge
    \/ \E s \in Slots : StatsFindOne(s)
    \/ \E s \in Slots : StatsCreate(s)
    \/ \E s \in Slots : StatsReinit(s)
    \/ \E s \in Slots : StatsSave(s)
    \/ \E s \in Slots : RawDeliver(s)

SpecStats == InitStats /\ [][NextStats]_vars

(***************************************************************************)
(* SpecEngine: a page is loaded over a store that already holds tasks, and *)
(* checkBadgeUnlocks is called on it again and again as the days pass.     *)
(***************************************************************************)
\* what a stored task can look like: never completed, or completed at some time
StoredStates ==
    {[status |-> "pending", updatedAt |-> 0]}
    \cup {[status |-> "completed", updatedAt |-> t] : t \in 0..EngineMaxNow}

StoredTask(id, st) ==
    [id |-> id, title |-> <<"a">>, description |-> <<>>, status |-> st.status,
     createdAt |-> 0, updatedAt |-> st.updatedAt]

RECURSIVE LatestUpdate(_)
LatestUpdate(tasks) ==
    IF tasks = <<>> THEN 0
    ELSE LET rest == LatestUpdate(Tail(tasks)) IN
         IF Head(tasks).updatedAt > rest THEN Head(tasks).updatedAt ELSE rest

InitEngine ==
    /\ \E n \in 0..EngineMaxTasks : \E sts \in [1..n -> StoredStates] :
         dbTasks = [i \in 1..n |-> StoredTask(i, sts[i])]
    /\ now = LatestUpdate(dbTasks)
    /\ nextId = Len(dbTasks) + 1
    /\ dbStats = <<>>
    /\ reqs = <<>>
    /\ cl = Fresh({1})
    /\ hist = Unobserved({1})
    /\ faults = 0
    /\ lim = Limits(EngineMaxNow, 1, EngineMaxTasks, 0, EngineMaxSaves, 0, PointChoices)

NextEngine ==
    \/ Tick
    \/ \E c \in Tabs : PageLoad(c)
    \/ \E c \in Tabs : CallCheckBadgeUnlocks(c)
    \/ \E s \in Slots : StatsFindOne(s)
    \/ \E s \in Slots : StatsCreate(s)
    \/ \E s \in Slots : StatsSave(s)
    \/ \E s \in Slots : TasksHandle(s)

SpecEngine == InitEngine /\ [][NextEngine]_vars

(***************************************************************************)
(* SpecReload: one tab whose page is loaded again.                         *)
(***************************************************************************)
InitReload ==
    /\ now = 0
    /\ dbTasks = <<>>
    /\ nextId = 1
    /\ dbStats = <<>>
    /\ reqs = <<>>
    /\ cl = Fresh({1})
    /\ hist = Unobserved({1})
    /\ faults = 0
    /\ lim = Limits(ReloadMaxNow, 1, ReloadMaxTasks, 0, ReloadMaxSaves, MaxReloads, PointChoices)

NextReload ==
    \/ Tick
    \/ \E c \in Tabs : PageLoad(c)
    \/ \E c \in Tabs : AddTask(c)
    \/ \E c \in Tabs : \E s \in Slots : AddTaskResp(c, s)
    \/ \E c \in Tabs : ToggleTask(c)
    \/ \E c \in Tabs : \E s \in Slots : ToggleTaskResp(c, s)
    \/ \E c \in Tabs : Reload(c)
    \/ \E s \in Slots : StatsFindOne(s)
    \/ \E s \in Slots : StatsCreate(s)
    \/ \E s \in Slots : StatsSave(s)
    \/ \E s \in Slots : TasksHandle(s)
    \/ \E s \in Slots : RawDeliver(s)

SpecReload == InitReload /\ [][NextReload]_vars

(***************************************************************************)
(* SpecTabs: two tabs on the same backend.                                 *)
(***************************************************************************)
InitTabs ==
    /\ now = 0
    /\ dbTasks = <<>>
    /\ nextId = 1
    /\ dbStats = <<>>
    /\ reqs = <<>>
    /\ cl = Fresh({1, 2})
    /\ hist = Unobserved({1, 2})
    /\ faults = 0
    /\ lim = Limits(0, TabsMaxInFlight, TabsMaxTasks, 0, TabsMaxSaves, 0, TabsPointChoices)

NextTabs ==
    \/ \E c \in Tabs : PageLoad(c)
    \/ \E c \in Tabs : AddTask(c)
    \/ \E c \in Tabs : \E s \in Slots : AddTaskResp(c, s)
    \/ \E c \in Tabs : ToggleTask(c)
    \/ \E c \in Tabs : \E s \in Slots : ToggleTaskResp(c, s)
    \/ \E s \in Slots : StatsFindOne(s)
    \/ \E s \in Slots : StatsCreate(s)
    \/ \E s \in Slots : StatsSave(s)
    \/ \E s \in Slots : TasksHandle(s)

SpecTabs == InitTabs /\ [][NextTabs]_vars

(***************************************************************************)
(* SpecFailures: two tabs; one tab can delete the task the other still     *)
(* shows, and a fetch can fail.                                            *)
(***************************************************************************)
InitFailures ==
    /\ now = 0
    /\ dbTasks = <<>>
    /\ nextId = 1
    /\ dbStats = <<>>
    /\ reqs = <<>>
    /\ cl = Fresh({1, 2})
    /\ hist = Unobserved({1, 2})
    /\ faults = 0
    /\ lim = Limits(0, FailuresMaxInFlight, FailuresMaxTasks, FailuresMaxFaults,
                    FailuresMaxSaves, 0, TabsPointChoices)

NextFailures ==
    \/ \E c \in Tabs : PageLoad(c)
    \/ \E c \in Tabs : AddTask(c)
    \/ \E c \in Tabs : \E s \in Slots : AddTaskResp(c, s)
    \/ \E c \in Tabs : EditTask(c)
    \/ \E c \in Tabs : \E s \in Slots : EditTaskResp(c, s)
    \/ \E c \in Tabs : DeleteTask(c)
    \/ \E c \in Tabs : \E s \in Slots : DeleteTaskResp(c, s)
    \/ \E c \in Tabs : ToggleTask(c)
    \/ \E c \in Tabs : \E s \in Slots : ToggleTaskResp(c, s)
    \/ \E s \in Slots : StatsFindOne(s)
    \/ \E s \in Slots : StatsCreate(s)
    \/ \E s \in Slots : StatsSave(s)
    \/ \E s \in Slots : TasksHandle(s)
    \/ \E s \in Slots : NetFail(s)

SpecFailures == InitFailures /\ [][NextFailures]_vars

(***************************************************************************)
(* SpecOverlap: one tab whose user starts an operation before the answer   *)
(* to the previous one has arrived.                                        *)
(***************************************************************************)
InitOverlap ==
    /\ now = 0
    /\ dbTasks = <<>>
    /\ nextId = 1
    /\ dbStats = <<>>
    /\ reqs = <<>>
    /\ cl = Fresh({1})
    /\ hist = Unobserved({1})
    /\ faults = 0
    /\ lim = Limits(0, OverlapMaxInFlight, OverlapMaxTasks, 0,
                    OverlapMaxSaves, 0, TabsPointChoices)

NextOverlap ==
    \/ \E c \in Tabs : PageLoad(c)
    \/ \E c \in Tabs : AddTask(c)
    \/ \E c \in Tabs : \E s \in Slots : AddTaskResp(c, s)
    \/ \E c \in Tabs : EditTask(c)
    \/ \E c \in Tabs : \E s \in Slots : EditTaskResp(c, s)
    \/ \E c \in Tabs : DeleteTask(c)
    \/ \E c \in Tabs : \E s \in Slots : DeleteTaskResp(c, s)
    \/ \E c \in Tabs : ToggleTask(c)
    \/ \E c \in Tabs : \E s \in Slots : ToggleTaskResp(c, s)
    \/ \E s \in Slots : StatsFindOne(s)
    \/ \E s \in Slots : StatsCreate(s)
    \/ \E s \in Slots : StatsSave(s)
    \/ \E s \in Slots : TasksHandle(s)

SpecOverlap == InitOverlap /\ [][NextOverlap]_vars

(***************************************************************************)
(* SpecOrder: one tab whose user adds, edits and deletes tasks as time     *)
(* passes, without waiting for the answers.                                *)
(***************************************************************************)
InitOrder ==
    /\ now = 0
    /\ dbTasks = <<>>
    /\ nextId = 1
    /\ dbStats = <<>>
    /\ reqs = <<>>
    /\ cl = Fresh({1})
    /\ hist = Unobserved({1})
    /\ faults = 0
    /\ lim = Limits(OrderMaxNow, OrderMaxInFlight, OrderMaxTasks, 0, 0, 0, TabsPointChoices)

NextOrder ==
    \/ Tick
    \/ \E c \in Tabs : PageLoad(c)
    \/ \E c \in Tabs : AddTask(c)
    \/ \E c \in Tabs : \E s \in Slots : AddTaskResp(c, s)
    \/ \E c \in Tabs : EditTask(c)
    \/ \E c \in Tabs : \E s \in Slots : EditTaskResp(c, s)
    \/ \E c \in Tabs : DeleteTask(c)
    \/ \E c \in Tabs : \E s \in Slots : DeleteTaskResp(c, s)
    \/ \E s \in Slots : StatsFindOne(s)
    \/ \E s \in Slots : StatsCreate(s)
    \/ \E s \in Slots : TasksHandle(s)

SpecOrder == InitOrder /\ [][NextOrder]_vars

(***************************************************************************)
(* SpecFilter: one tab over a store of pending and completed tasks; the    *)
(* user switches the filter and toggles tasks.                             *)
(***************************************************************************)
InitFilter ==
    /\ \E n \in 0..FilterMaxTasks : \E sts \in [1..n -> {"pending", "completed"}] :
         dbTasks = [i \in 1..n |-> StoredTask(i, [status |-> sts[i], updatedAt |-> 0])]
    /\ now = 0
    /\ nextId = Len(dbTasks) + 1
    /\ dbStats = <<>>
    /\ reqs = <<>>
    /\ cl = Fresh({1})
    /\ hist = Unobserved({1})
    /\ faults = 0
    /\ lim = Limits(0, 1, FilterMaxTasks, 0, FilterMaxSaves, 0, TabsPointChoices)

NextFilter ==
    \/ \E c \in Tabs : PageLoad(c)
    \/ \E c \in Tabs : SetFilter(c)
    \/ \E c \in Tabs : ToggleTask(c)
    \/ \E c \in Tabs : \E s \in Slots : ToggleTaskResp(c, s)
    \/ \E c \in Tabs : DeleteTask(c)
    \/ \E c \in Tabs : \E s \in Slots : DeleteTaskResp(c, s)
    \/ \E s \in Slots : StatsFindOne(s)
    \/ \E s \in Slots : StatsCreate(s)
    \/ \E s \in Slots : StatsSave(s)
    \/ \E s \in Slots : TasksHandle(s)

SpecFilter == InitFilter /\ [][NextFilter]_vars

(***************************************************************************)
(* SpecEdit: one tab over a store whose tasks were created, and some of    *)
(* them completed, at time 0; the user edits titles as the days pass.      *)
(***************************************************************************)
InitEdit ==
    /\ \E n \in 1..EditMaxTasks : \E sts \in [1..n -> {"pending", "completed"}] :
         dbTasks = [i \in 1..n |-> StoredTask(i, [status |-> sts[i], updatedAt |-> 0])]
    /\ now = 0
    /\ nextId = Len(dbTasks) + 1
    /\ dbStats = <<>>
    /\ reqs = <<>>
    /\ cl = Fresh({1})
    /\ hist = Unobserved({1})
    /\ faults = 0
    /\ lim = Limits(EditMaxNow, 1, EditMaxTasks, 0, EditMaxSaves, 0, TabsPointChoices)

NextEdit ==
    \/ Tick
    \/ \E c \in Tabs : PageLoad(c)
    \/ \E c \in Tabs : EditTask(c)
    \/ \E c \in Tabs : \E s \in Slots : EditTaskResp(c, s)
    \/ \E c \in Tabs : CallCheckBadgeUnlocks(c)
    \/ \E s \in Slots : StatsFindOne(s)
    \/ \E s \in Slots : StatsCreate(s)
    \/ \E s \in Slots : StatsSave(s)
    \/ \E s \in Slots : TasksHandle(s)

SpecEdit == InitEdit /\ [][NextEdit]_vars

(***************************************************************************)
(* SpecVariants: one TaskManager, either the in-memory one over its        *)
(* example tasks or a tab on the backend over an empty store.              *)
(***************************************************************************)
InitVariants ==
    /\ now = LocalStart
    /\ dbTasks = <<>>
    /\ dbStats = <<>>
    /\ reqs = <<>>
    /\ hist = Unobserved({1})
    /\ faults = 0
    /\ \/ /\ cl = <<LocalChecked(LocalTaskManager(SampleTasks, SampleBadges), now)>>
          /\ nextId = Len(SampleTasks) + 1
          /\ lim = Limits(LocalStart + VariantsMaxTicks, 1,
                          Len(SampleTasks) + VariantsMaxAdded, 0, 0, 0, TabsPointChoices)
       \/ /\ cl = Fresh({1})
          /\ nextId = 1
          /\ lim = Limits(LocalStart + VariantsMaxTicks, 1, VariantsMaxAdded, 0,
                          VariantsMaxSaves, 0, TabsPointChoices)

NextVariants ==
    \/ Tick
    \/ \E c \in Tabs : LocalToggleTask(c)
    \/ \E c \in Tabs : LocalAddTask(c)
    \/ \E c \in Tabs : LocalDeleteTask(c)
    \/ \E c \in Tabs : PageLoad(c)
    \/ \E c \in Tabs : AddTask(c)
    \/ \E c \in Tabs : \E s \in Slots : AddTaskResp(c, s)
    \/ \E c \in Tabs : ToggleTask(c)
    \/ \E c \in Tabs : \E s \in Slots : ToggleTaskResp(c, s)
    \/ \E s \in Slots : StatsFindOne(s)
    \/ \E s \in Slots : StatsCreate(s)
    \/ \E s \in Slots : StatsSave(s)
    \/ \E s \in Slots : TasksHandle(s)

SpecVariants == InitVariants /\ [][NextVariants]_vars

(***************************************************************************)
(* SpecRule: checkBadgeUnlocks of the two TaskManagers over one history:   *)
(* tab 1 loads the tasks from the store, tab 2 is the in-memory manager    *)
(* holding the same tasks, with every badge locked.                        *)
(***************************************************************************)
RuleStates ==
    {[status |-> "pending", updatedAt |-> 0]}
    \cup {[status |-> "completed", updatedAt |-> d * TicksPerDay] : d \in 0..(RuleMaxDay - 1)}

InitRule ==
    /\ \E n \in 0..RuleMaxTasks : \E sts \in [1..n -> RuleStates] :
         dbTasks = [i \in 1..n |-> StoredTask(i, sts[i])]
    /\ now = LatestUpdate(dbTasks)
    /\ nextId = Len(dbTasks) + 1
    /\ dbStats = <<>>
    /\ reqs = <<>>
    /\ cl = [c \in {1, 2} |->
               IF c = 1 THEN NewTaskManager(0)
               ELSE LocalTaskManager(
                      [i \in 1..Len(dbTasks) |-> mapTaskFromBackend(dbTasks[i], 5)],
                      getDefaultBadges)]
    /\ hist = Unobserved({1, 2})
    /\ faults = 0
    /\ lim = Limits(RuleMaxDay * TicksPerDay, 1, RuleMaxTasks, 0, RuleMaxSaves, 0,
                    TabsPointChoices)

NextRule ==
    \/ Tick
    \/ \E c \in Tabs : PageLoad(c)
    \/ \E c \in Tabs : CallCheckBadgeUnlocks(c)
    \/ \E c \in Tabs : LocalCallCheckBadgeUnlocks(c)
    \/ \E s \in Slots : StatsFindOne(s)
    \/ \E s \in Slots : StatsCreate(s)
    \/ \E s \in Slots : StatsSave(s)
    \/ \E s \in Slots : TasksHandle(s)

SpecRule == InitRule /\ [][NextRule]_vars

(***************************************************************************)
(* SpecThresholds: a page is loaded over a store of ThresholdTasks tasks,  *)
(* the first few of them completed.                                        *)
(***************************************************************************)
InitThresholds ==
    /\ \E k \in 0..ThresholdTasks :
         dbTasks = [i \in 1..ThresholdTasks |->
                      StoredTask(i, [status |-> IF i <= k THEN "completed" ELSE "pending",
                                     updatedAt |-> 0])]
    /\ now = 0
    /\ nextId = Len(dbTasks) + 1
    /\ dbStats = <<>>
    /\ reqs = <<>>
    /\ cl = Fresh({1})
    /\ hist = Unobserved({1})
    /\ faults = 0
    /\ lim = Limits(0, 1, ThresholdTasks, 0, ThresholdMaxSaves, 0, ThresholdPointChoices)

NextThresholds ==
    \/ \E c \in Tabs : PageLoad(c)
    \/ \E c \in Tabs : CallCheckBadgeUnlocks(c)
    \/ \E s \in Slots : StatsFindOne(s)
    \/ \E s \in Slots : StatsCreate(s)
    \/ \E s \in Slots : StatsSave(s)
    \/ \E s \in Slots : TasksHandle(s)

SpecThresholds == InitThresholds /\ [][NextThresholds]_vars

(***************************************************************************)
(* SpecStreak: callers that PATCH /stats with a currentStreak.             *)
(***************************************************************************)
RawPatchStreak ==
    /\ CanSend
    /\ \E k \in 0..MaxStreak :
         reqs' = Append(reqs,
                    Request(0, "raw", "PATCH /stats", 0, "",
                            [NoBody EXCEPT !.has = {"currentStreak"}, !.currentStreak = k]))
    /\ UNCHANGED <<now, dbTasks, nextId, dbStats, cl, hist, faults, lim>>

InitStreak ==
    /\ now = 0
    /\ dbTasks = <<>>
    /\ nextId = 1
    /\ dbStats = <<>>
    /\ reqs = <<>>
    /\ cl = Idle
    /\ hist = Idle
    /\ faults = 0
    /\ lim = Limits(0, StreakMaxInFlight, 0, 0, 0, 0, PointChoices)

NextStreak ==
    \/ RawPatchStreak
    \/ \E s \in Slots : StatsFindOne(s)
    \/ \E s \in Slots : StatsCreate(s)
    \/ \E s \in Slots : StatsSave(s)
    \/ \E s \in Slots : RawDeliver(s)

SpecStreak == InitStreak /\ [][NextStreak]_vars

(***************************************************************************)
(* SpecTasks: the task routes under arbitrary callers.                     *)
(***************************************************************************)
\* bodies a caller may send: title absent, empty, blank, plain, padded; status
\* absent, one of the two values, or another word
RawTitles == {<<>>, <<" ">>, <<"a">>, <<"a", " ">>}

\* descriptions a caller may send: empty, or padded
RawDescriptions == {<<>>, <<" ", "b">>}

RawTaskBodies ==
    LET withTitle == {NoBody} \cup {[NoBody EXCEPT !.has = {"title"}, !.title = t] :
                                      t \in RawTitles}
        withStatus == withTitle \cup
                      {[b EXCEPT !.has = @ \cup {"status"}, !.status = st] :
                          b \in withTitle, st \in {"pending", "completed", "done"}}
    IN  withStatus \cup
        {[b EXCEPT !.has = @ \cup {"description"}, !.description = d] :
            b \in withStatus, d \in RawDescriptions}

\* ids a caller may name: the ids the store has handed out or will, one it
\* never will within the run, and a string that is no ObjectId
RawTaskIds == (1..(lim.tasks + 1)) \cup {-1}

RawGetTasks ==
    /\ CanSend
    /\ reqs' = Append(reqs, Request(0, "raw", "GET /tasks", 0, "", NoBody))
    /\ UNCHANGED <<now, dbTasks, nextId, dbStats, cl, hist, faults, lim>>

RawGetTask ==
    /\ CanSend
    /\ \E id \in RawTaskIds :
         reqs' = Append(reqs, Request(0, "raw", "GET /tasks/id", id, "", NoBody))
    /\ UNCHANGED <<now, dbTasks, nextId, dbStats, cl, hist, faults, lim>>

RawPostTask ==
    /\ CanSend
    /\ nextId <= lim.tasks
    /\ \E b \in RawTaskBodies :
         reqs' = Append(reqs, Request(0, "raw", "POST /tasks", 0, "", b))
    /\ UNCHANGED <<now, dbTasks, nextId, dbStats, cl, hist, faults, lim>>

RawPutTask ==
    /\ CanSend
    /\ \E id \in RawTaskIds : \E b \in RawTaskBodies :
         reqs' = Append(reqs, Request(0, "raw", "PUT /tasks", id, "", b))
    /\ UNCHANGED <<now, dbTasks, nextId, dbStats, cl, hist, faults, lim>>

RawPatchTask ==
    /\ CanSend
    /\ \E id \in RawTaskIds : \E b \in RawTaskBodies :
         reqs' = Append(reqs, Request(0, "raw", "PATCH /tasks", id, "", b))
    /\ UNCHANGED <<now, dbTasks, nextId, dbStats, cl, hist, faults, lim>>

RawDeleteTask ==
    /\ CanSend
    /\ \E id \in RawTaskIds :
         reqs' = Append(reqs, Request(0, "raw", "DELETE /tasks", id, "", NoBody))
    /\ UNCHANGED <<now, dbTasks, nextId, dbStats, cl, hist, faults, lim>>

InitTasks ==
    /\ now = 0
    /\ dbTasks = <<>>
    /\ nextId = 1
    /\ dbStats = <<>>
    /\ reqs = <<>>
    /\ cl = Idle
    /\ hist = Idle
    /\ faults = 0
    /\ lim = Limits(TasksMaxNow, 1, TasksMaxStored, 0, 0, 0, PointChoices)

NextTasks ==
    \/ Tick
    \/ RawGetTasks
    \/ RawGetTask
    \/ RawPostTask
    \/ RawPutTask
    \/ RawPatchTask
    \/ RawDeleteTask
    \/ \E s \in Slots : TasksHandle(s)
    \/ \E s \in Slots : RawDeliver(s)

SpecTasks == InitTasks /\ [][NextTasks]_vars

(***************************************************************************)
(* Properties.                                                             *)
(***************************************************************************)
StoredBadges == IF Len(dbStats) = 0 THEN <<>> ELSE dbStats[1].badges

\* C1: a badge that is unlocked in the stored record is never stored as
\* locked afterwards, and its stored unlockedAt never changes (SpecStats).
C1_StoredBadgeStaysUnlocked ==
    [][\A i \in 1..Len(StoredBadges) :
          StoredBadges[i].unlocked =>
             \A j \in 1..Len(StoredBadges') :
                StoredBadges'[j].id = StoredBadges[i].id =>
                   /\ StoredBadges'[j].unlocked
                   /\ StoredBadges'[j].unlockedAt = StoredBadges[i].unlockedAt]_vars

\* C2: in a loaded page, whatever the user does, a badge that is unlocked in
\* the TaskManager stays as it is: unlocked, with the same unlockedAt (Spec).
C2_ClientBadgeStaysUnlocked ==
    [][\A c \in Tabs :
          (cl[c].phase = "ready" /\ cl'[c].reloads = cl[c].reloads) =>
             /\ Len(cl'[c].badges) = Len(cl[c].badges)
             /\ \A i \in 1..Len(cl[c].badges) :
                   cl[c].badges[i].unlocked => cl'[c].badges[i] = cl[c].badges[i]]_vars

\* first-task is unlocked although, after an un-completion or a deletion, no
\* task of the list is completed
C2_UnlockedWithoutCompletedTask ==
    \E c \in Tabs :
       /\ cl[c].phase = "ready"
       /\ hist[c].lastOp \in {"toggleTask", "deleteTask"}
       /\ CompletedTasks(cl[c].tasks) = <<>>
       /\ "first-task" \in Unlocked(cl[c].badges)

\* C3: whenever no request is in flight, the statistics of a loaded page are
\* those of its task list: tasksCompleted, totalTasks and totalPoints (Spec).
C3_StatsFollowEveryMutation ==
    \A c \in Tabs :
       (cl[c].phase = "ready" /\ reqs = <<>>) =>
          /\ cl[c].stats.tasksCompleted = Len(CompletedTasks(cl[c].tasks))
          /\ cl[c].stats.totalTasks = Len(cl[c].tasks)
          /\ cl[c].stats.totalPoints = SumPoints(CompletedTasks(cl[c].tasks))

\* the positions of the completed tasks, and the sum of their points
CompletedAt(tasks) == {i \in 1..Len(tasks) : tasks[i].completed}

RECURSIVE PointsOver(_, _)
PointsOver(tasks, positions) ==
    IF positions = {} THEN 0
    ELSE LET i == CHOOSE k \in positions : TRUE
         IN  tasks[i].points + PointsOver(tasks, positions \ {i})

\* C4: right after checkBadgeUnlocks, tasksCompleted is the number of
\* completed tasks, totalTasks the length of the list and totalPoints the sum
\* of the points of the completed tasks; on an empty list all three are 0,
\* currentStreak is 0 and no badge was unlocked (SpecEngine).
C4_CountsAfterCheck ==
    \A c \in Tabs :
       hist[c].lastOp = "check" =>
          LET m == cl[c] IN
          /\ m.stats.tasksCompleted = Cardinality(CompletedAt(m.tasks))
          /\ m.stats.totalTasks = Len(m.tasks)
          /\ m.stats.totalPoints = PointsOver(m.tasks, CompletedAt(m.tasks))
          /\ m.tasks = <<>> =>
                /\ m.stats.tasksCompleted = 0
                /\ m.stats.totalTasks = 0
                /\ m.stats.totalPoints = 0
                /\ m.stats.currentStreak = 0
                /\ hist[c].newly = {}

\* a check over three tasks, two of them completed with different points
C4_CheckedMixedList ==
    \E c \in Tabs :
       /\ hist[c].lastOp = "check"
       /\ Len(cl[c].tasks) = 3
       /\ cl[c].stats.tasksCompleted = 2
       /\ cl[c].stats.totalPoints = 30

\* the calendar day of a time, and the days on which a task was completed
DayOf(t) == t \div TicksPerDay

CompletionDays(tasks) ==
    {DayOf(tasks[i].completedAt) :
        i \in {k \in CompletedAt(tasks) : tasks[k].completedAt # NullDate}}

\* each of the k days today, today-1, ..., today-(k-1) has a completion
DaysInARow(tasks, today, k) == \A j \in 0..(k - 1) : (today - j) \in CompletionDays(tasks)

\* C5: after checkBadgeUnlocks, currentStreak is the largest k such that each
\* of the days today, today-1, ..., today-(k-1) has the completion of a
\* completed task; 0 without a completion today; a gap ends the count; several
\* completions on a day count once (SpecEngine).
C5_StreakIsDaysInARow ==
    \A c \in Tabs :
       hist[c].lastOp = "check" =>
          LET k     == cl[c].stats.currentStreak
              today == DayOf(hist[c].checkAt)
          IN  /\ k >= 0
              /\ DaysInARow(cl[c].tasks, today, k)
              /\ ~DaysInARow(cl[c].tasks, today, k + 1)

\* a check on the third of three days in a row with a completion
C5_ThreeDaysInARow ==
    \E c \in Tabs :
       /\ hist[c].lastOp = "check"
       /\ cl[c].stats.currentStreak = 3
       /\ DayOf(hist[c].checkAt) = 2

\* C6: a page that is loaded again while the tasks of the store are unchanged
\* (same day, nothing in flight when the page was left, statistics up to date)
\* unlocks no badge and has the totalPoints, tasksCompleted and currentStreak
\* it had before (SpecReload).
C6_ReloadChangesNothing ==
    \A c \in Tabs :
       ( /\ hist[c].lastOp = "check"
         /\ hist[c].snap.taken
         /\ ~hist[c].again
         /\ hist[c].snap.quiet
         /\ hist[c].snap.fresh
         /\ hist[c].snap.tasks = dbTasks
         /\ DayOf(hist[c].snap.at) = DayOf(hist[c].checkAt) ) =>
          /\ hist[c].newly = {}
          /\ cl[c].stats.totalPoints = hist[c].snap.stats.totalPoints
          /\ cl[c].stats.tasksCompleted = hist[c].snap.stats.tasksCompleted
          /\ cl[c].stats.currentStreak = hist[c].snap.stats.currentStreak

\* C7: a checkBadgeUnlocks that follows another one on the same task list and
\* the same day leaves the statistics and every badge as they were and unlocks
\* nothing (SpecEngine).
C7_SecondCheckChangesNothing ==
    [][\A c \in Tabs :
          ( /\ hist[c].lastOp = "check"
            /\ hist'[c].lastOp = "check"
            /\ hist'[c].again
            /\ cl'[c].tasks = cl[c].tasks
            /\ DayOf(hist'[c].checkAt) = DayOf(hist[c].checkAt) ) =>
             /\ cl'[c].stats = cl[c].stats
             /\ cl'[c].badges = cl[c].badges
             /\ hist'[c].newly = {}]_vars

\* a second check in a row, on a list that has unlocked a badge and holds a
\* streak
C7_CheckedTwice ==
    \E c \in Tabs :
       /\ hist[c].lastOp = "check"
       /\ hist[c].again
       /\ cl[c].stats.currentStreak >= 1
       /\ cl[c].stats.totalPoints >= 50
       /\ "points-50" \in Unlocked(cl[c].badges)

C9_GetStatsAlways200 ==
    /\ Len(dbStats) <= 1
    /\ \A s \in Slots :
          (reqs[s].route = "GET /stats" /\ reqs[s].phase = "done") =>
             reqs[s].status = 200

\* C10: the stored aggregate always holds exactly the four badges first-task,
\* streak-3, points-50 and tasks-10, in that order (SpecStats).
C10_FourBadgesStored ==
    \A d \in 1..Len(dbStats) :
       [i \in 1..Len(dbStats[d].badges) |-> dbStats[d].badges[i].id] = BadgeIds

\* C11: longestStreak >= currentStreak in the stored aggregate, whatever
\* PATCH /stats requests with a currentStreak were made (SpecStreak).
C11_LongestAtLeastCurrent ==
    \A d \in 1..Len(dbStats) : dbStats[d].longestStreak >= dbStats[d].currentStreak

\* C12: the stored longestStreak never decreases, whatever PATCH /stats
\* requests with a currentStreak were made (SpecStreak).
C12_LongestNeverDecreases ==
    [][(Len(dbStats) > 0 /\ Len(dbStats') > 0) =>
          dbStats'[1].longestStreak >= dbStats[1].longestStreak]_vars

\* C13: after every checkBadgeUnlocks that sees at least one completed task,
\* first-task is unlocked (SpecEngine).
C13_FirstTaskOnceAnyCompleted ==
    \A c \in Tabs :
       (hist[c].lastOp = "check" /\ cl[c].stats.tasksCompleted >= 1) =>
          "first-task" \in Unlocked(cl[c].badges)

\* the badge was locked when the last checkBadgeUnlocks began
WasLocked(c, id) == id \notin (Unlocked(cl[c].badges) \ hist[c].newly)

\* C14: a checkBadgeUnlocks unlocks streak-3 exactly when streak-3 was locked
\* and the currentStreak it computed is >= 3 (SpecEngine).
C14_Streak3FollowsStreak ==
    \A c \in Tabs :
       hist[c].lastOp = "check" =>
          ( "streak-3" \in hist[c].newly
              <=> (WasLocked(c, "streak-3") /\ cl[c].stats.currentStreak >= 3) )

\* a check that unlocked streak-3
C14_Streak3Unlocked ==
    \E c \in Tabs :
       /\ hist[c].lastOp = "check"
       /\ "streak-3" \in hist[c].newly
       /\ cl[c].stats.currentStreak = 3

\* C15: a checkBadgeUnlocks unlocks points-50 exactly when it was locked and
\* the points of the completed tasks sum to >= 50, and tasks-10 exactly when
\* it was locked and at least 10 tasks are completed (SpecThresholds).
C15_ThresholdBadgesFollowPredicates ==
    \A c \in Tabs :
       hist[c].lastOp = "check" =>
          LET done == CompletedAt(cl[c].tasks) IN
          /\ "points-50" \in hist[c].newly
                <=> (WasLocked(c, "points-50") /\ PointsOver(cl[c].tasks, done) >= 50)
          /\ "tasks-10" \in hist[c].newly
                <=> (WasLocked(c, "tasks-10") /\ Cardinality(done) >= 10)

\* a check that unlocked tasks-10 on the tenth completed task, the ten tasks
\* worth exactly 50 points
C15_TenthCompletion ==
    \E c \in Tabs :
       /\ hist[c].lastOp = "check"
       /\ hist[c].newly = {"points-50", "tasks-10"}
       /\ cl[c].stats.tasksCompleted = 10
       /\ cl[c].stats.totalPoints = 50

\* the step in which the handler of request s runs, from arrival to response
Handled(s) ==
    /\ reqs[s].phase = "sent"
    /\ Len(reqs') = Len(reqs)
    /\ \A k \in Slots \ {s} : reqs'[k] = reqs[k]
    /\ reqs'[s].phase = "done"

\* C16: POST /tasks, PUT /tasks/{id} and PATCH /tasks/{id} answer 400 to a
\* status outside {pending, completed}, and every stored task has one of the
\* two (SpecTasks).
C16_InvalidStatusIs400 ==
    /\ \A s \in Slots :
          ( /\ reqs[s].phase = "done"
            /\ reqs[s].route \in {"POST /tasks", "PUT /tasks", "PATCH /tasks"}
            /\ "status" \in reqs[s].body.has
            /\ reqs[s].body.status \notin {"pending", "completed"} ) =>
             reqs[s].status = 400
    /\ \A i \in 1..Len(dbTasks) : dbTasks[i].status \in {"pending", "completed"}

\* a string of blanks, the empty string included
Blank(str) == \A i \in 1..Len(str) : str[i] = " "

TitleRejected(r) ==
    \/ /\ r.route \in {"POST /tasks", "PUT /tasks"}
       /\ ("title" \notin r.body.has \/ Blank(r.body.title))
    \/ /\ r.route = "PATCH /tasks"
       /\ "title" \in r.body.has
       /\ Blank(r.body.title)

\* C17: POST and PUT answer 400 to a missing, empty or blank title, PATCH to
\* an empty or blank one; the store is unchanged by the request; no stored
\* task has an empty or blank title (SpecTasks).
C17_BlankTitleIs400 ==
    [][/\ \A s \in Slots :
             (Handled(s) /\ TitleRejected(reqs[s])) =>
                (reqs'[s].status = 400 /\ dbTasks' = dbTasks)
       /\ \A i \in 1..Len(dbTasks') : ~Blank(dbTasks'[i].title)]_vars

\* a PATCH with a blank title on a stored task was answered 400
C17_BlankPatchRejected ==
    \E s \in Slots :
       /\ reqs[s].phase = "done"
       /\ reqs[s].route = "PATCH /tasks"
       /\ reqs[s].body.has = {"title"}
       /\ reqs[s].body.title = <<" ">>
       /\ reqs[s].status = 400
       /\ FindTaskIndex(dbTasks, reqs[s].taskId) # 0

\* C18: GET, PUT, PATCH and DELETE on /tasks/{id} with an id that is not in
\* the store answer 404 and leave the store unchanged (SpecTasks).
C18_UnknownIdIs404 ==
    [][\A s \in Slots :
          ( /\ Handled(s)
            /\ reqs[s].route \in {"GET /tasks/id", "PUT /tasks", "PATCH /tasks",
                                  "DELETE /tasks"}
            /\ \A i \in 1..Len(dbTasks) : dbTasks[i].id # reqs[s].taskId ) =>
             (reqs'[s].status = 404 /\ dbTasks' = dbTasks)]_vars

\* C20: the task a successful POST /tasks answers with has status pending,
\* and every task of the store that was not there before the request is
\* pending (SpecTasks).
C20_CreatedPending ==
    [][\A s \in Slots :
          ( /\ Handled(s)
            /\ reqs[s].route = "POST /tasks"
            /\ reqs'[s].status = 201 ) =>
             /\ reqs'[s].rtask.status = "pending"
             /\ \A i \in 1..Len(dbTasks') :
                   (\A j \in 1..Len(dbTasks) : dbTasks[j].id # dbTasks'[i].id) =>
                      dbTasks'[i].status = "pending"]_vars

TaskOps == {"addTask", "editTask", "deleteTask", "toggleTask"}

\* C19: when the answer to the request of addTask, editTask, deleteTask or
\* toggleTask is a failure (no answer at all, or a status outside 2xx), the
\* step in which the client takes the answer raises an alert and leaves the
\* tab's task list, statistics and badges as they were (SpecFailures).
C19_FailureChangesNothing ==
    [][\A c \in Tabs : \A s \in Slots :
          ( /\ reqs[s].phase = "done"
            /\ reqs[s].client = c
            /\ reqs[s].op \in TaskOps
            /\ reqs[s].status \notin {200, 201}
            /\ reqs' # reqs
            /\ \/ reqs' = RemoveAt(reqs, s)
               \/ /\ Len(reqs') = Len(reqs)
                  /\ reqs'[s] # reqs[s] ) =>
             /\ cl'[c] = cl[c]
             /\ reqs' = RemoveAt(reqs, s)
             /\ hist'[c].lastOp = "alert"]_vars

\* a tab with an unlocked badge got 404 for a task the other tab had deleted
C19_AlertAfter404 ==
    \E c \in Tabs :
       /\ hist[c].lastOp = "alert"
       /\ cl[c].stats.tasksCompleted = 1
       /\ Unlocked(cl[c].badges) # {}
       /\ Len(cl[c].tasks) = 1
       /\ dbTasks = <<>>
       /\ faults = 0

\* str is whole without the blanks around it
Trimmed(whole, str) ==
    /\ str = <<>> \/ (str[1] # " " /\ str[Len(str)] # " ")
    /\ \E i \in 0..Len(whole) :
          /\ i + Len(str) <= Len(whole)
          /\ \A k \in 1..Len(whole) :
                IF k > i /\ k <= i + Len(str) THEN whole[k] = str[k - i]
                ELSE whole[k] = " "

\* C21: a PATCH /tasks/{id} answered 200 changes, in the task with that id,
\* exactly the fields among title, description and status that the body
\* holds, to their trimmed values, and sets updatedAt to the time of the
\* request; the task's other fields, its id and createdAt, and every other
\* task are as before (SpecTasks).
C21_PatchIsPartial ==
    [][\A s \in Slots :
          ( /\ Handled(s)
            /\ reqs[s].route = "PATCH /tasks"
            /\ reqs'[s].status = 200 ) =>
             LET b == reqs[s].body IN
             /\ Len(dbTasks') = Len(dbTasks)
             /\ \A i \in 1..Len(dbTasks) :
                   IF dbTasks[i].id # reqs[s].taskId
                   THEN dbTasks'[i] = dbTasks[i]
                   ELSE /\ dbTasks'[i].id = dbTasks[i].id
                        /\ dbTasks'[i].createdAt = dbTasks[i].createdAt
                        /\ dbTasks'[i].updatedAt = now
                        /\ IF "title" \in b.has
                           THEN Trimmed(b.title, dbTasks'[i].title)
                           ELSE dbTasks'[i].title = dbTasks[i].title
                        /\ IF "description" \in b.has
                           THEN Trimmed(b.description, dbTasks'[i].description)
                           ELSE dbTasks'[i].description = dbTasks[i].description
                        /\ IF "status" \in b.has
                           THEN dbTasks'[i].status = b.status
                           ELSE dbTasks'[i].status = dbTasks[i].status
                        /\ reqs'[s].rtask = dbTasks'[i]]_vars

\* a PATCH that held only a title was answered 200 on a completed task with
\* a description, some time after the task was created, next to another task
C21_TitlePatched ==
    \E s \in Slots :
       /\ reqs[s].phase = "done"
       /\ reqs[s].route = "PATCH /tasks"
       /\ reqs[s].status = 200
       /\ reqs[s].body.has = {"title"}
       /\ reqs[s].body.title = <<"a", " ">>
       /\ reqs[s].rtask.title = <<"a">>
       /\ reqs[s].rtask.status = "completed"
       /\ reqs[s].rtask.description = <<"b">>
       /\ reqs[s].rtask.updatedAt > reqs[s].rtask.createdAt
       /\ Len(dbTasks) = 2

\* C22: the client's task list is ordered by createdAt, newest first
\* (SpecOrder).
C22_ClientNewestFirst ==
    \A c \in Tabs : \A i \in 1..Len(cl[c].tasks) : \A j \in i..Len(cl[c].tasks) :
       cl[c].tasks[i].createdAt >= cl[c].tasks[j].createdAt

\* C25: with one tab whose page has loaded and no request in flight, the
\* tab's task list holds the ids of the store, each with the title and the
\* status the store has (SpecOverlap).
C25_QuiescentClientMatchesStore ==
    \A c \in Tabs :
       (reqs = <<>> /\ cl[c].phase = "ready") =>
          {<<cl[c].tasks[i].id, cl[c].tasks[i].title, cl[c].tasks[i].completed>> :
              i \in 1..Len(cl[c].tasks)}
          = {<<dbTasks[i].id, dbTasks[i].title, dbTasks[i].status = "completed">> :
              i \in 1..Len(dbTasks)}

Flipped(completed) == IF completed THEN "pending" ELSE "completed"

\* toggleTask requests of one tab for one task that are in flight together
TogglePairs ==
    {<<s, t>> \in Slots \X Slots :
        /\ s < t
        /\ reqs[s].op = "toggleTask" /\ reqs[t].op = "toggleTask"
        /\ reqs[s].client = reqs[t].client
        /\ reqs[s].client # 0
        /\ reqs[s].taskId = reqs[t].taskId}

\* C26, as stated: two toggleTask calls on the same task, the second issued
\* before the answer to the first has been taken, send the same target
\* status (SpecOverlap).
C26_OverlappingTogglesSameTarget ==
    \A p \in TogglePairs : reqs[p[1]].body.status = reqs[p[2]].body.status

\* C26, amended: (1) a toggleTask call sends the flip of the completed flag
\* the tab's copy of the task has at the call, so two calls in flight that
\* saw the same flag send the same target; (2) a call answered 200 has put
\* the stored task at its target; (3) when the tab takes the 200 answer its
\* copy of the task is at the target, and checkBadgeUnlocks runs in that step
\* exactly when the call saw the task as not completed (SpecOverlap).
C26_ToggleFollowsLocalCopy ==
    [][/\ \A c \in Tabs :
             ( /\ Len(reqs') = Len(reqs) + 1
               /\ reqs'[Len(reqs')].op = "toggleTask"
               /\ reqs'[Len(reqs')].client = c ) =>
                LET r == reqs'[Len(reqs')] IN
                /\ \E i \in 1..Len(cl[c].tasks) :
                      /\ cl[c].tasks[i].id = r.taskId
                      /\ cl[c].tasks[i].completed = r.wasCompleted
                /\ r.body.status = Flipped(r.wasCompleted)
       /\ \A p \in TogglePairs :
             reqs[p[1]].wasCompleted = reqs[p[2]].wasCompleted =>
                reqs[p[1]].body.status = reqs[p[2]].body.status
       /\ \A s \in Slots :
             ( /\ Handled(s)
               /\ reqs[s].op = "toggleTask"
               /\ reqs'[s].status = 200 ) =>
                /\ reqs'[s].rtask.status = reqs[s].body.status
                /\ \E i \in 1..Len(dbTasks') :
                      /\ dbTasks'[i].id = reqs[s].taskId
                      /\ dbTasks'[i].status = reqs[s].body.status
       /\ \A c \in Tabs : \A s \in Slots :
             ( /\ reqs[s].phase = "done"
               /\ reqs[s].client = c
               /\ reqs[s].op = "toggleTask"
               /\ reqs[s].status = 200
               /\ reqs' # reqs
               /\ \/ reqs' = RemoveAt(reqs, s)
                  \/ /\ Len(reqs') = Len(reqs)
                     /\ reqs'[s] # reqs[s] ) =>
                /\ \A i \in 1..Len(cl'[c].tasks) :
                      cl'[c].tasks[i].id = reqs[s].taskId =>
                         cl'[c].tasks[i].completed = (reqs[s].body.status = "completed")
                /\ (hist'[c].lastOp = "check") <=> ~reqs[s].wasCompleted
                /\ reqs[s].wasCompleted => hist'[c].lastOp = "toggleTask"]_vars

\* two toggleTask calls on one pending task have both been answered 200 and
\* neither answer has been taken
C26_TwoTogglesAnswered ==
    \E p \in TogglePairs :
       /\ reqs[p[1]].phase = "done" /\ reqs[p[2]].phase = "done"
       /\ reqs[p[1]].status = 200 /\ reqs[p[2]].status = 200
       /\ ~reqs[p[1]].wasCompleted /\ ~reqs[p[2]].wasCompleted

\* the positions of the tasks a filter shows
Shown(tasks, f) ==
    {i \in 1..Len(tasks) :
        \/ f = "all"
        \/ f = "active" /\ ~tasks[i].completed
        \/ f = "completed" /\ tasks[i].completed}

\* list holds the tasks at the positions pos, in the order of the positions
PicksInOrder(list, tasks, pos) ==
    /\ Len(list) = Cardinality(pos)
    /\ \A i \in pos : list[Cardinality({j \in pos : j <= i})] = tasks[i]

\* C23: in every state all = active + completed in getCounts, each count is
\* the number of tasks its filter shows, and getFilteredTasks is the tasks
\* the current filter shows, in list order; a step that changes the filter
\* changes nothing else of the tab (SpecFilter).
C23_FilterPartitions ==
    [][\A c \in Tabs :
          /\ getCounts(cl'[c]).all = getCounts(cl'[c]).active + getCounts(cl'[c]).completed
          /\ getCounts(cl'[c]).all = Len(cl'[c].tasks)
          /\ getCounts(cl'[c]).active = Cardinality(Shown(cl'[c].tasks, "active"))
          /\ getCounts(cl'[c]).completed = Cardinality(Shown(cl'[c].tasks, "completed"))
          /\ cl'[c].filter \in Filters
          /\ PicksInOrder(getFilteredTasks(cl'[c]), cl'[c].tasks,
                          Shown(cl'[c].tasks, cl'[c].filter))
          /\ cl'[c].filter # cl[c].filter =>
                /\ cl'[c] = [cl[c] EXCEPT !.filter = cl'[c].filter]
                /\ dbTasks' = dbTasks /\ dbStats' = dbStats /\ reqs' = reqs]_vars

\* the filter is "completed" over a list that holds a pending task before a
\* completed one, after a toggle
C23_CompletedFilterShowsOne ==
    \E c \in Tabs :
       /\ cl[c].filter = "completed"
       /\ hist[c].lastOp = "toggleTask"
       /\ Len(cl[c].tasks) = 2
       /\ ~cl[c].tasks[1].completed
       /\ cl[c].tasks[2].completed
       /\ getFilteredTasks(cl[c]) = <<cl[c].tasks[2]>>

\* C24: the store dates an edit by updatedAt; when the tab takes the answer
\* of editTask the task keeps its id, completed flag and points, has the new
\* title, and a completed task has the time of the edit as its completion
\* date; the next checkBadgeUnlocks counts a streak of at least 1 exactly
\* when a completed task has its completion date, edits included, on the day
\* of the check (SpecEdit).
C24_EditRedatesCompletion ==
    [][/\ \A s \in Slots :
             ( /\ Handled(s)
               /\ reqs[s].op = "editTask"
               /\ reqs'[s].status = 200 ) =>
                /\ reqs'[s].rtask.updatedAt = now
                /\ reqs'[s].rtask.title = reqs[s].body.title
       /\ \A c \in Tabs : \A s \in Slots :
             ( /\ reqs[s].phase = "done"
               /\ reqs[s].client = c
               /\ reqs[s].op = "editTask"
               /\ reqs[s].status = 200
               /\ reqs' = RemoveAt(reqs, s) ) =>
                /\ Len(cl'[c].tasks) = Len(cl[c].tasks)
                /\ \A i \in 1..Len(cl[c].tasks) :
                      IF cl[c].tasks[i].id # reqs[s].taskId
                      THEN cl'[c].tasks[i] = cl[c].tasks[i]
                      ELSE /\ cl'[c].tasks[i].id = cl[c].tasks[i].id
                           /\ cl'[c].tasks[i].completed = cl[c].tasks[i].completed
                           /\ cl'[c].tasks[i].points = cl[c].tasks[i].points
                           /\ cl'[c].tasks[i].title = reqs[s].body.title
                           /\ cl'[c].tasks[i].completedAt =
                                 IF cl[c].tasks[i].completed
                                 THEN reqs[s].rtask.updatedAt ELSE NullDate
       /\ \A c \in Tabs :
             hist'[c].lastOp = "check" =>
                ( cl'[c].stats.currentStreak >= 1
                  <=> \E i \in CompletedAt(cl'[c].tasks) :
                         DayOf(cl'[c].tasks[i].completedAt) = DayOf(hist'[c].checkAt) )]_vars

\* a check on the second day counts a streak of 1 for a task that was
\* completed on the first day and whose title was edited on the second
C24_EditedTaskCountsToday ==
    \E c \in Tabs :
       /\ hist[c].lastOp = "check"
       /\ DayOf(hist[c].checkAt) = 1
       /\ Len(cl[c].tasks) = 1
       /\ cl[c].tasks[1].title = <<"b">>
       /\ cl[c].tasks[1].completed
       /\ CompletionDays(cl[c].tasks) = {1}
       /\ cl[c].stats.currentStreak = 1

\* the saveStats requests of tab c that wait for their handler
SavesSent(rs, c) ==
    {s \in 1..Len(rs) : rs[s].op = "saveStats" /\ rs[s].client = c /\ rs[s].phase = "sent"}

C28_FailedSaveIsSwallowed ==
    [][/\ \A c \in Tabs : \A s \in Slots :
             ( /\ reqs[s].phase = "done"
               /\ reqs[s].client = c
               /\ reqs[s].op = "saveStats"
               /\ reqs[s].status # 200
               /\ reqs' = RemoveAt(reqs, s) ) =>
                /\ cl'[c] = cl[c]
                /\ hist'[c] = hist[c]
                /\ hist[c].newly \subseteq Unlocked(cl'[c].badges)
                /\ dbTasks' = dbTasks
                /\ dbStats' = dbStats
       /\ (Len(dbStats) > 0 /\ Len(dbStats') > 0
           /\ Unlocked(dbStats'[1].badges) # Unlocked(dbStats[1].badges)) =>
             \E s \in Slots :
                /\ reqs[s].phase = "saving"
                /\ Len(reqs') = Len(reqs)
                /\ reqs'[s].phase = "done"
                /\ reqs'[s].status = 200]_vars

\* the save of the check that unlocked first-task failed: the task is
\* completed in the tab and in the store, the badge is unlocked in the tab
\* and locked in the store
C28_UnlockNotPersisted ==
    \E c \in Tabs :
       /\ reqs = <<>>
       /\ faults = 1
       /\ hist[c].lastOp = "check"
       /\ hist[c].newly = {"first-task"}
       /\ Len(cl[c].tasks) = 1 /\ cl[c].tasks[1].completed
       /\ Len(dbTasks) = 1 /\ dbTasks[1].status = "completed"
       /\ "first-task" \in Unlocked(cl[c].badges)
       /\ Len(dbStats) = 1
       /\ Unlocked(dbStats[1].badges) = {}

\* C29: in both TaskManagers a task has a completion date exactly when it is
\* completed; a step that un-completes a task clears the date, and a step
\* that completes it dates it by that toggle: the time of the step in the
\* in-memory manager, the updatedAt of the answer in the tab on the backend
\* (SpecVariants).
C29_DatedIffCompleted ==
    [][\A c \in Tabs :
          /\ \A i \in 1..Len(cl'[c].tasks) :
                cl'[c].tasks[i].completed <=> cl'[c].tasks[i].completedAt # NullDate
          /\ \A i \in 1..Len(cl[c].tasks) : \A j \in 1..Len(cl'[c].tasks) :
                ( /\ cl[c].tasks[i].id = cl'[c].tasks[j].id
                  /\ cl[c].tasks[i].completed # cl'[c].tasks[j].completed ) =>
                   IF cl[c].tasks[i].completed
                   THEN cl'[c].tasks[j].completedAt = NullDate
                   ELSE IF cl[c].phase = "local"
                   THEN cl'[c].tasks[j].completedAt = now
                   ELSE \E s \in Slots :
                           /\ reqs[s].op = "toggleTask"
                           /\ reqs[s].phase = "done"
                           /\ reqs[s].taskId = cl[c].tasks[i].id
                           /\ cl'[c].tasks[j].completedAt = reqs[s].rtask.updatedAt
                           /\ reqs[s].rtask.updatedAt <= now]_vars

\* the second example task of the in-memory manager, completed on the first
\* day, has been un-completed and completed again and carries the later date
C29_CompletedAgain ==
    \E c \in Tabs : \E i \in 1..Len(cl[c].tasks) :
       /\ cl[c].phase = "local"
       /\ cl[c].tasks[i].id = 2
       /\ cl[c].tasks[i].completed
       /\ cl[c].tasks[i].completedAt = LocalStart + 1

====
